---- MODULE Spec2Model ----
(***************************************************************************)
(* A model of the dictwalk path engine (src/rust/src/lib.rs): the path     *)
(* lexer and segment parser, the read walker (get / exists), the write     *)
(* walker (set) and the unset walker, over tree-shaped values.             *)
(*                                                                         *)
(* Strings (paths, keys, string values) are sequences of one-character     *)
(* strings, so that lexing, regex classification and literal parsing are   *)
(* computed character by character as the code computes them.              *)
(*                                                                         *)
(* Values are tagged records:                                              *)
(*   [k |-> "null"]            None                                        *)
(*   [k |-> "bool", b |-> _]   True / False                                *)
(*   [k |-> "int",  i |-> _]   int                                         *)
(*   [k |-> "str",  s |-> _]   str (a sequence of characters)              *)
(*   [k |-> "list", l |-> _]   list (a sequence of values)                 *)
(*   [k |-> "map",  m |-> _]   dict, a sequence of <<key, value>> pairs    *)
(*                             in insertion order, keys unique             *)
(* Results are [ok |-> TRUE, val |-> v] or [ok |-> FALSE, err |-> kind].   *)
(***************************************************************************)
EXTENDS Integers, Sequences, FiniteSets, TLC

VARIABLES data, last, calls, walk

vars == <<data, last, calls, walk>>

(* Calls between the operations go through one recursive operator, Call:
   each operation below stands for its body, which is defined under the
   name of the operation followed by _body. *)
RECURSIVE Call(_, _)
SplitRawFrom(path, i, tokens, current, bracket_depth) == Call("SplitRawFrom", <<path, i, tokens, current, bracket_depth>>)
split_raw_path_tokens(path) == Call("split_raw_path_tokens", <<path>>)
SplitTransformFrom(path, i, bracket_depth) == Call("SplitTransformFrom", <<path, i, bracket_depth>>)
split_path_and_transform(path) == Call("split_path_and_transform", <<path>>)
IndexReMatch(raw) == Call("IndexReMatch", <<raw>>)
SliceReMatch(raw) == Call("SliceReMatch", <<raw>>)
FilterBodyCandidates(body) == Call("FilterBodyCandidates", <<body>>)
FilterBodyMatch(body) == Call("FilterBodyMatch", <<body>>)
FilterReMatch(raw) == Call("FilterReMatch", <<raw>>)
parse_token(raw_token) == Call("parse_token", <<raw_token>>)
compare_values(left, right, operator) == Call("compare_values", <<left, right, operator>>)
parse_literal(value) == Call("parse_literal", <<value>>)
SplitArgsFrom(a, i, st) == Call("SplitArgsFrom", <<a, i, st>>)
split_filter_args(args_string) == Call("split_filter_args", <<args_string>>)
resolve_root_reference_value(root_data, value) == Call("resolve_root_reference_value", <<root_data, value>>)
ParseArgTokens(arg_tokens, root_data) == Call("ParseArgTokens", <<arg_tokens, root_data>>)
parse_filter_args(args_string, root_data) == Call("parse_filter_args", <<args_string, root_data>>)
compile_builtin_filter(name, args) == Call("compile_builtin_filter", <<name, args>>)
PathFilterSegmentMatch(segment) == Call("PathFilterSegmentMatch", <<segment>>)
SplitOn(str, sep) == Call("SplitOn", <<str, sep>>)
CompileSegments(segments, root_data) == Call("CompileSegments", <<segments, root_data>>)
compile_builtin_pipeline(expression, root_data) == Call("compile_builtin_pipeline", <<expression, root_data>>)
compare_with_fallback(left, right, operator) == Call("compare_with_fallback", <<left, right, operator>>)
apply_inc(value) == Call("apply_inc", <<value>>)
apply_builtin_filter(value, filter) == Call("apply_builtin_filter", <<value, filter>>)
ApplySteps(res, steps) == Call("ApplySteps", <<res, steps>>)
MapSteps(items, steps, mapped) == Call("MapSteps", <<items, steps, mapped>>)
ApplyPipelineFrom(current, pipeline, idx) == Call("ApplyPipelineFrom", <<current, pipeline, idx>>)
apply_builtin_pipeline(input, pipeline) == Call("apply_builtin_pipeline", <<input, pipeline>>)
OperandEnd(e, i, paren_depth) == Call("OperandEnd", <<e, i, paren_depth>>)
TokenizeFrom(e, i, tokens) == Call("TokenizeFrom", <<e, i, tokens>>)
tokenize_boolean_filter_expression(expression) == Call("tokenize_boolean_filter_expression", <<expression>>)
parse_primary(tokens, idx) == Call("parse_primary", <<tokens, idx>>)
parse_not(tokens, idx) == Call("parse_not", <<tokens, idx>>)
ParseAndLoop(tokens, left) == Call("ParseAndLoop", <<tokens, left>>)
parse_and(tokens, idx) == Call("parse_and", <<tokens, idx>>)
ParseOrLoop(tokens, left) == Call("ParseOrLoop", <<tokens, left>>)
parse_or(tokens, idx) == Call("parse_or", <<tokens, idx>>)
parse(tokens) == Call("parse", <<tokens>>)
compile_builtin_or_boolean_predicate(expr) == Call("compile_builtin_or_boolean_predicate", <<expr>>)
eval_predicate_expr(expr, value) == Call("eval_predicate_expr", <<expr, value>>)
resolve_predicate_filter(expr) == Call("resolve_predicate_filter", <<expr>>)
validate_filter_token(list_key, field, operator, value) == Call("validate_filter_token", <<list_key, field, operator, value>>)
ParseTokens(raw_tokens, tokens) == Call("ParseTokens", <<raw_tokens, tokens>>)
parse_path(path) == Call("parse_path", <<path>>)
ProjectKey(items, key) == Call("ProjectKey", <<items, key>>)
resolve_get_token(current, key) == Call("resolve_get_token", <<current, key>>)
resolve_map_token(current, key) == Call("resolve_map_token", <<current, key>>)
iter_child_nodes(node) == Call("iter_child_nodes", <<node>>)
resolve_wildcard_token(current) == Call("resolve_wildcard_token", <<current>>)
DescendantsOfAll(children) == Call("DescendantsOfAll", <<children>>)
collect_descendants(node) == Call("collect_descendants", <<node>>)
resolve_deep_wildcard_token(current) == Call("resolve_deep_wildcard_token", <<current>>)
resolve_index_token(current, key, index) == Call("resolve_index_token", <<current, key, index>>)
resolve_slice_token(current, key, start, end) == Call("resolve_slice_token", <<current, key, start, end>>)
compile_filter_matcher(field, value) == Call("compile_filter_matcher", <<field, value>>)
resolve_filter_field_value_compiled(matcher, item) == Call("resolve_filter_field_value_compiled", <<matcher, item>>)
OrderedLiteralMatch(operator, field_value, expected_value, raw_value) == Call("OrderedLiteralMatch", <<operator, field_value, expected_value, raw_value>>)
filter_matches_compiled(operator, matcher, item, root_data) == Call("filter_matches_compiled", <<operator, matcher, item, root_data>>)
MatchMask(operator, matcher, items, root_data, mask) == Call("MatchMask", <<operator, matcher, items, root_data, mask>>)
resolve_filter_token(current, root_data, list_key, field, operator, value) == Call("resolve_filter_token", <<current, root_data, list_key, field, operator, value>>)
resolve_token(current, root_data, kind) == Call("resolve_token", <<current, root_data, kind>>)
apply_output_transform(current, transform, root_data) == Call("apply_output_transform", <<current, transform, root_data>>)
WalkTokens(tokens, current, root_data) == Call("WalkTokens", <<tokens, current, root_data>>)
get(root_data, path, default, strict) == Call("get", <<root_data, path, default, strict>>)
exists(root_data, path, strict) == Call("exists", <<root_data, path, strict>>)
ensure_path_resolves(root_data, tokens, until) == Call("ensure_path_resolves", <<root_data, tokens, until>>)
resolve_new_value(h, existing_value, new_value, root_data) == Call("resolve_new_value", <<h, existing_value, new_value, root_data>>)
coerce_current_to_dict_for_write(h, current, write_options) == Call("coerce_current_to_dict_for_write", <<h, current, write_options>>)
compute_slice_indexes(len, start, end) == Call("compute_slice_indexes", <<len, start, end>>)
WriteListFor(h, dict, key, write_options) == Call("WriteListFor", <<h, dict, key, write_options>>)
SetItemsResolved(h, list, indexes, new_value, root_data) == Call("SetItemsResolved", <<h, list, indexes, new_value, root_data>>)
SetItemsRecurse(h, list, indexes, rest, new_value, write_options, root_data, replace_scalars) == Call("SetItemsRecurse", <<h, list, indexes, rest, new_value, write_options, root_data, replace_scalars>>)
set_get_token(h, current0, remaining, key, new_value, write_options, root_data) == Call("set_get_token", <<h, current0, remaining, key, new_value, write_options, root_data>>)
set_map_token(h, current0, remaining, key, new_value, write_options, root_data) == Call("set_map_token", <<h, current0, remaining, key, new_value, write_options, root_data>>)
SetDictChildren(h, dict, keys, remaining, new_value, write_options, root_data) == Call("SetDictChildren", <<h, dict, keys, remaining, new_value, write_options, root_data>>)
set_wildcard_token(h, current, remaining, new_value, write_options, root_data) == Call("set_wildcard_token", <<h, current, remaining, new_value, write_options, root_data>>)
PadList(h, list, idx, has_next) == Call("PadList", <<h, list, idx, has_next>>)
set_index_token(h, current0, remaining, key, index, new_value, write_options, root_data) == Call("set_index_token", <<h, current0, remaining, key, index, new_value, write_options, root_data>>)
set_slice_token(h, current0, remaining, key, start, end, new_value, write_options, root_data) == Call("set_slice_token", <<h, current0, remaining, key, start, end, new_value, write_options, root_data>>)
set_filter_token(h, current, remaining, list_key, field, operator, value, new_value, write_options, root_data) == Call("set_filter_token", <<h, current, remaining, list_key, field, operator, value, new_value, write_options, root_data>>)
DeepSetDictLoop(h, node, keys, remaining, new_value, write_options, root_data) == Call("DeepSetDictLoop", <<h, node, keys, remaining, new_value, write_options, root_data>>)
DeepSetListLoop(h, node, indexes, remaining, new_value, write_options, root_data) == Call("DeepSetListLoop", <<h, node, indexes, remaining, new_value, write_options, root_data>>)
deep_set_walk(h, node, remaining, new_value, write_options, root_data) == Call("deep_set_walk", <<h, node, remaining, new_value, write_options, root_data>>)
deep_set_enter(data_in, path, value) == Call("deep_set_enter", <<data_in, path, value>>)
deep_set_visit(w) == Call("deep_set_visit", <<w>>)
set_deep_wildcard_token(h, current, remaining, new_value, write_options, root_data) == Call("set_deep_wildcard_token", <<h, current, remaining, new_value, write_options, root_data>>)
set_recurse(h, current, remaining, new_value, write_options, root_data) == Call("set_recurse", <<h, current, remaining, new_value, write_options, root_data>>)
set(data_in, path, value, strict, create_missing, create_filter_match, overwrite_incompatible) == Call("set", <<data_in, path, value, strict, create_missing, create_filter_match, overwrite_incompatible>>)
UnsetListFor(h, dict, key) == Call("UnsetListFor", <<h, dict, key>>)
UnsetItemsRecurse(h, list, indexes, rest) == Call("UnsetItemsRecurse", <<h, list, indexes, rest>>)
unset_get_token(h, current, remaining, key) == Call("unset_get_token", <<h, current, remaining, key>>)
unset_map_token(h, current, remaining, key) == Call("unset_map_token", <<h, current, remaining, key>>)
UnsetDictChildren(h, dict, keys, rest) == Call("UnsetDictChildren", <<h, dict, keys, rest>>)
unset_wildcard_token(h, current, remaining) == Call("unset_wildcard_token", <<h, current, remaining>>)
DeepUnsetDictLoop(h, node, keys, remaining) == Call("DeepUnsetDictLoop", <<h, node, keys, remaining>>)
DeepUnsetListLoop(h, node, indexes, remaining) == Call("DeepUnsetListLoop", <<h, node, indexes, remaining>>)
deep_unset_walk(h, node, remaining) == Call("deep_unset_walk", <<h, node, remaining>>)
unset_deep_wildcard_token(h, current, remaining) == Call("unset_deep_wildcard_token", <<h, current, remaining>>)
PopDescending(items, indexes) == Call("PopDescending", <<items, indexes>>)
unset_index_token(h, current, remaining, key, index) == Call("unset_index_token", <<h, current, remaining, key, index>>)
unset_slice_token(h, current, remaining, key, start, end) == Call("unset_slice_token", <<h, current, remaining, key, start, end>>)
UnsetMatchingRecurse(h, list, indexes, operator, matcher, rest) == Call("UnsetMatchingRecurse", <<h, list, indexes, operator, matcher, rest>>)
unset_filter_token(h, current, remaining, list_key, field, operator, value) == Call("unset_filter_token", <<h, current, remaining, list_key, field, operator, value>>)
unset_recurse(h, current, remaining) == Call("unset_recurse", <<h, current, remaining>>)
unset(data_in, path, strict) == Call("unset", <<data_in, path, strict>>)
run_filter_function(path_filter, value) == Call("run_filter_function", <<path_filter, value>>)

----------------------------------------------------------------------------
(* Value constructors and results *)

Null == [k |-> "null"]
BoolV(x) == [k |-> "bool", b |-> x]
IntV(n) == [k |-> "int", i |-> n]
StrV(chars) == [k |-> "str", s |-> chars]
ListV(items) == [k |-> "list", l |-> items]
MapV(pairs) == [k |-> "map", m |-> pairs]

Ok(v) == [ok |-> TRUE, val |-> v]
Err(kind) == [ok |-> FALSE, err |-> kind]

IsDict(v) == v.k = "map"
IsList(v) == v.k = "list"
IsStr(v) == v.k = "str"

----------------------------------------------------------------------------
(* Character helpers *)

Digits == {"0", "1", "2", "3", "4", "5", "6", "7", "8", "9"}

Letters == {"a", "b", "c", "d", "e", "f", "g", "h", "i", "j", "k", "l", "m",
            "n", "o", "p", "q", "r", "s", "t", "u", "v", "w", "x", "y", "z",
            "A", "B", "C", "D", "E", "F", "G", "H", "I", "J", "K", "L", "M",
            "N", "O", "P", "Q", "R", "S", "T", "U", "V", "W", "X", "Y", "Z"}

DigitVal(c) ==
  CASE c = "0" -> 0 [] c = "1" -> 1 [] c = "2" -> 2 [] c = "3" -> 3
    [] c = "4" -> 4 [] c = "5" -> 5 [] c = "6" -> 6 [] c = "7" -> 7
    [] c = "8" -> 8 [] c = "9" -> 9

DigitChar(d) ==
  CASE d = 0 -> "0" [] d = 1 -> "1" [] d = 2 -> "2" [] d = 3 -> "3"
    [] d = 4 -> "4" [] d = 5 -> "5" [] d = 6 -> "6" [] d = 7 -> "7"
    [] d = 8 -> "8" [] d = 9 -> "9"

StartsWith(str, prefix) ==
  /\ Len(str) >= Len(prefix)
  /\ SubSeq(str, 1, Len(prefix)) = prefix

EndsWith(str, suffix) ==
  /\ Len(str) >= Len(suffix)
  /\ SubSeq(str, Len(str) - Len(suffix) + 1, Len(str)) = suffix

DropFirst(str, n) == SubSeq(str, n + 1, Len(str))

AllDigits(str) == \A j \in 1..Len(str) : str[j] \in Digits

RECURSIVE DigitsValue(_)
DigitsValue(str) ==
  IF str = <<>> THEN 0
  ELSE 10 * DigitsValue(SubSeq(str, 1, Len(str) - 1)) + DigitVal(str[Len(str)])

RECURSIVE NatToStr(_)
NatToStr(n) ==
  IF n < 10 THEN <<DigitChar(n)>>
  ELSE Append(NatToStr(n \div 10), DigitChar(n % 10))

IntToStr(n) == IF n < 0 THEN <<"-">> \o NatToStr(-n) ELSE NatToStr(n)

(* The largest j with str[j] = c, or 0. *)
LastIndexOf(str, c) ==
  LET S == {j \in 1..Len(str) : str[j] = c}
  IN IF S = {} THEN 0 ELSE CHOOSE j \in S : \A h \in S : h <= j

(* Whether str contains sub as a contiguous substring. *)
Contains(str, sub) ==
  \E j \in 1..(Len(str) - Len(sub) + 1) : SubSeq(str, j, j + Len(sub) - 1) = sub

----------------------------------------------------------------------------
(* Path lexer *)

SplitRawFrom_body(path, i, tokens, current, bracket_depth) ==
  IF i > Len(path) THEN Append(tokens, current)
  ELSE LET ch == path[i] IN
    IF ch = "[" THEN
      SplitRawFrom(path, i + 1, tokens, Append(current, ch), bracket_depth + 1)
    ELSE IF ch = "]" THEN
      SplitRawFrom(path, i + 1, tokens, Append(current, ch),
                   IF bracket_depth - 1 > 0 THEN bracket_depth - 1 ELSE 0)
    ELSE IF ch = "." /\ bracket_depth = 0 THEN
      SplitRawFrom(path, i + 1, Append(tokens, current), <<>>, bracket_depth)
    ELSE
      SplitRawFrom(path, i + 1, tokens, Append(current, ch), bracket_depth)

split_raw_path_tokens_body(path) == SplitRawFrom(path, 1, <<>>, <<>>, 0)

(* Option<String> is <<>> (None) or <<transform>> (Some). *)
SplitTransformFrom_body(path, i, bracket_depth) ==
  IF i > Len(path) THEN [base |-> path, transform |-> <<>>]
  ELSE LET ch == path[i] IN
    IF ch = "[" THEN SplitTransformFrom(path, i + 1, bracket_depth + 1)
    ELSE IF ch = "]" THEN
      SplitTransformFrom(path, i + 1,
                         IF bracket_depth - 1 > 0 THEN bracket_depth - 1 ELSE 0)
    ELSE IF ch = "|" /\ bracket_depth = 0 /\ i + 1 <= Len(path) /\ path[i + 1] = "$" THEN
      [base |-> SubSeq(path, 1, i - 1), transform |-> <<DropFirst(path, i)>>]
    ELSE SplitTransformFrom(path, i + 1, bracket_depth)

split_path_and_transform_body(path) == SplitTransformFrom(path, 1, 0)

----------------------------------------------------------------------------
(* Segment parser: the three regexes and parse_token *)

(* an optional "-" and then one or more digits *)
IsIntText(str) ==
  \/ str # <<>> /\ AllDigits(str)
  \/ Len(str) >= 2 /\ str[1] = "-" /\ AllDigits(Tail(str))

(* an optional "-" and then zero or more digits *)
IsOptIntText(str) ==
  \/ AllDigits(str)
  \/ Len(str) >= 1 /\ str[1] = "-" /\ AllDigits(Tail(str))

(* str::parse::<isize>() as an Option: <<>> or <<n>>.  Magnitudes stay far
   below the isize range in this model, so overflow never makes it fail. *)
ParseIsize(str) ==
  IF ~IsIntText(str) THEN <<>>
  ELSE IF str[1] = "-" THEN <<0 - DigitsValue(Tail(str))>>
  ELSE <<DigitsValue(str)>>

(* INDEX_RE ^(.+)\[(-?\d+)\]$ : the bracket is the last "[" of the token. *)
IndexReMatch_body(raw) ==
  LET n == Len(raw)
      j == LastIndexOf(raw, "[")
  IN IF n >= 1 /\ raw[n] = "]" /\ j >= 2 /\ IsIntText(SubSeq(raw, j + 1, n - 1))
     THEN <<[key |-> SubSeq(raw, 1, j - 1), inner |-> SubSeq(raw, j + 1, n - 1)]>>
     ELSE <<>>

(* SLICE_RE: key, "[", optional-sign digits, ":", optional-sign digits, "]";
   either side may be empty, and "-" alone also matches a side. *)
SliceReMatch_body(raw) ==
  LET n == Len(raw)
      j == LastIndexOf(raw, "[")
      inner == SubSeq(raw, j + 1, n - 1)
      c == LastIndexOf(inner, ":")
  IN IF n >= 1 /\ raw[n] = "]" /\ j >= 2 /\ c >= 1
        /\ IsOptIntText(SubSeq(inner, 1, c - 1))
        /\ IsOptIntText(SubSeq(inner, c + 1, Len(inner)))
     THEN <<[key |-> SubSeq(raw, 1, j - 1),
             start |-> SubSeq(inner, 1, c - 1),
             end |-> SubSeq(inner, c + 1, Len(inner))]>>
     ELSE <<>>

(* The alternation (==|!=|>=|<=|>|<), in the order the regex tries it. *)
FilterOps == << <<"=", "=">>, <<"!", "=">>, <<">", "=">>, <<"<", "=">>, <<">">>, <<"<">> >>

(* (.+?)(==|!=|>=|<=|>|<)(.+?) against the whole of body: the shortest
   field first, then the first alternative that leaves a non-empty value. *)
FilterBodyCandidates_body(body) ==
  {c \in (1..Len(body)) \X (1..Len(FilterOps)) :
     LET f == c[1]
         op == FilterOps[c[2]]
     IN /\ f + Len(op) < Len(body)
        /\ SubSeq(body, f + 1, f + Len(op)) = op}

(* A faulty variant of FilterBodyMatch that takes the longest field, a
   greedy (.+) in place of the lazy (.+?): C18 fails with it. *)
FilterBodyMatchGreedy(body) ==
  LET C == FilterBodyCandidates(body)
  IN IF C = {} THEN <<>>
     ELSE LET best == CHOOSE c \in C :
                        \A d \in C : c[1] > d[1] \/ (c[1] = d[1] /\ c[2] <= d[2])
              op == FilterOps[best[2]]
          IN <<[field |-> SubSeq(body, 1, best[1]),
                operator |-> op,
                value |-> SubSeq(body, best[1] + Len(op) + 1, Len(body))]>>

FilterBodyMatch_body(body) ==
  LET C == FilterBodyCandidates(body)
  IN IF C = {} THEN <<>>
     ELSE LET best == CHOOSE c \in C :
                        \A d \in C : c[1] < d[1] \/ (c[1] = d[1] /\ c[2] <= d[2])
              op == FilterOps[best[2]]
          IN <<[field |-> SubSeq(body, 1, best[1]),
                operator |-> op,
                value |-> SubSeq(body, best[1] + Len(op) + 1, Len(body))]>>

(* FILTER_RE ^(.+)\[\?(.+?)(==|!=|>=|<=|>|<)(.+?)\]$ : the greedy first group
   takes the last "[?" after which the rest of the pattern still matches. *)
FilterReMatch_body(raw) ==
  LET n == Len(raw)
      P == {p \in 2..(n - 2) :
              /\ raw[p] = "[" /\ raw[p + 1] = "?"
              /\ FilterBodyMatch(SubSeq(raw, p + 2, n - 1)) # <<>>}
  IN IF n >= 1 /\ raw[n] = "]" /\ P # {}
     THEN LET p == CHOOSE q \in P : \A r \in P : r <= q
              b == FilterBodyMatch(SubSeq(raw, p + 2, n - 1))[1]
          IN <<[list_key |-> SubSeq(raw, 1, p - 1), field |-> b.field,
                operator |-> b.operator, value |-> b.value]>>
     ELSE <<>>

(* TokenKind.  Option<isize> is <<>> or <<n>>. *)
parse_token_body(raw_token) ==
  IF raw_token = <<"$", "$", "r", "o", "o", "t">> THEN [kind |-> "Root"]
  ELSE IF raw_token = <<"*">> THEN [kind |-> "Wildcard"]
  ELSE IF raw_token = <<"*", "*">> THEN [kind |-> "DeepWildcard"]
  ELSE IF EndsWith(raw_token, <<"[", "]">>)
    THEN [kind |-> "Map", key |-> SubSeq(raw_token, 1, Len(raw_token) - 2)]
  ELSE IF IndexReMatch(raw_token) # <<>>
    THEN LET c == IndexReMatch(raw_token)[1]
         IN [kind |-> "Index", key |-> c.key, index |-> ParseIsize(c.inner)[1]]
  ELSE IF SliceReMatch(raw_token) # <<>>
    THEN LET c == SliceReMatch(raw_token)[1]
         IN [kind |-> "Slice", key |-> c.key,
             start |-> ParseIsize(c.start), end |-> ParseIsize(c.end)]
  ELSE IF FilterReMatch(raw_token) # <<>>
    THEN LET c == FilterReMatch(raw_token)[1]
         IN [kind |-> "Filter", list_key |-> c.list_key, field |-> c.field,
             operator |-> c.operator, value |-> c.value]
  ELSE [kind |-> "Get", key |-> raw_token]

----------------------------------------------------------------------------
(* The host's dict and list operations used through PyDict / PyList *)

DictHas(d, key) == \E j \in 1..Len(d.m) : d.m[j][1] = key

DictPos(d, key) == CHOOSE j \in 1..Len(d.m) : d.m[j][1] = key

(* PyDict::get_item as an Option: <<>> or <<value>>. *)
DictGet(d, key) == IF DictHas(d, key) THEN <<d.m[DictPos(d, key)][2]>> ELSE <<>>

(* PyDict::set_item: an existing key keeps its position, a new key is appended. *)
DictSet(d, key, value) ==
  IF DictHas(d, key)
  THEN MapV([d.m EXCEPT ![DictPos(d, key)] = <<key, value>>])
  ELSE MapV(Append(d.m, <<key, value>>))

(* PyDict::del_item of a present key. *)
DictDel(d, key) ==
  LET j == DictPos(d, key)
  IN MapV(SubSeq(d.m, 1, j - 1) \o SubSeq(d.m, j + 1, Len(d.m)))

DictValues(d) == [j \in 1..Len(d.m) |-> d.m[j][2]]

(* A faulty variant of ListPop that fills the hole with the last element,
   as a swap-remove would: C13 fails with it. *)
ListPopSwap(items, i) ==
  IF i + 1 = Len(items) THEN SubSeq(items, 1, i)
  ELSE [SubSeq(items, 1, Len(items) - 1) EXCEPT ![i + 1] = items[Len(items)]]

(* list.pop(i) for 0 <= i < len (zero-based). *)
ListPop(items, i) == SubSeq(items, 1, i) \o SubSeq(items, i + 2, Len(items))

(* Elements of a sequence that satisfy keep[j], in order. *)
RECURSIVE SelectByMask(_, _)
SelectByMask(items, keep) ==
  IF items = <<>> THEN <<>>
  ELSE (IF Head(keep) THEN <<Head(items)>> ELSE <<>>)
       \o SelectByMask(Tail(items), Tail(keep))

----------------------------------------------------------------------------
(* The host's value semantics: truthiness, ==, ordering, str() and repr() *)

IsNumeric(v) == v.k \in {"int", "bool"}

NumVal(v) == IF v.k = "int" THEN v.i ELSE IF v.b THEN 1 ELSE 0

is_truthy(v) ==
  CASE v.k = "null" -> FALSE
    [] v.k = "bool" -> v.b
    [] v.k = "int" -> v.i # 0
    [] v.k = "str" -> v.s # <<>>
    [] v.k = "list" -> v.l # <<>>
    [] v.k = "map" -> v.m # <<>>

(* Python ==: bool is an int, dicts compare without regard to key order. *)
RECURSIVE PyEq(_, _)
PyEq(a, b) ==
  IF IsNumeric(a) /\ IsNumeric(b) THEN NumVal(a) = NumVal(b)
  ELSE IF a.k # b.k THEN FALSE
  ELSE IF a.k = "null" THEN TRUE
  ELSE IF a.k = "str" THEN a.s = b.s
  ELSE IF a.k = "list" THEN
    /\ Len(a.l) = Len(b.l)
    /\ \A j \in 1..Len(a.l) : PyEq(a.l[j], b.l[j])
  ELSE
    /\ Len(a.m) = Len(b.m)
    /\ \A j \in 1..Len(a.m) :
         /\ DictHas(b, a.m[j][1])
         /\ PyEq(a.m[j][2], DictGet(b, a.m[j][1])[1])

(* Code points of the printable ASCII characters, from 32 (space); the
   backtick (96) is held by a placeholder that no character equals. *)
Ascii == <<" ", "!", "\"", "#", "$", "%", "&", "'", "(", ")", "*", "+", ",", "-",
           ".", "/", "0", "1", "2", "3", "4", "5", "6", "7", "8", "9", ":", ";",
           "<", "=", ">", "?", "@", "A", "B", "C", "D", "E", "F", "G", "H", "I",
           "J", "K", "L", "M", "N", "O", "P", "Q", "R", "S", "T", "U", "V", "W",
           "X", "Y", "Z", "[", "\\", "]", "^", "_", "backtick", "a", "b", "c", "d", "e",
           "f", "g", "h", "i", "j", "k", "l", "m", "n", "o", "p", "q", "r", "s",
           "t", "u", "v", "w", "x", "y", "z", "{", "|", "}", "~">>

Ord(c) == 31 + (CHOOSE j \in 1..Len(Ascii) : Ascii[j] = c)

(* Three-way comparison of two strings by code point: -1, 0 or 1. *)
RECURSIVE StrCmp(_, _)
StrCmp(a, b) ==
  IF a = <<>> /\ b = <<>> THEN 0
  ELSE IF a = <<>> THEN -1
  ELSE IF b = <<>> THEN 1
  ELSE IF Ord(Head(a)) < Ord(Head(b)) THEN -1
  ELSE IF Ord(Head(a)) > Ord(Head(b)) THEN 1
  ELSE StrCmp(Tail(a), Tail(b))

OpHolds(operator, cmp) ==
  CASE operator = <<"=", "=">> -> cmp = 0
    [] operator = <<"!", "=">> -> cmp # 0
    [] operator = <<">">> -> cmp > 0
    [] operator = <<"<">> -> cmp < 0
    [] operator = <<">", "=">> -> cmp >= 0
    [] operator = <<"<", "=">> -> cmp <= 0

IntCmp(x, y) == IF x < y THEN -1 ELSE IF x > y THEN 1 ELSE 0

IsOrdering(operator) ==
  operator \in {<<">">>, <<"<">>, <<">", "=">>, <<"<", "=">>}

(* rich_compare for an ordering operator: numbers with numbers, strings with
   strings, lists with lists (at the first differing position, else by
   length); every other pairing is a TypeError. *)
RECURSIVE PyOrder(_, _, _)
PyOrder(a, b, operator) ==
  IF IsNumeric(a) /\ IsNumeric(b) THEN Ok(OpHolds(operator, IntCmp(NumVal(a), NumVal(b))))
  ELSE IF a.k = "str" /\ b.k = "str" THEN Ok(OpHolds(operator, StrCmp(a.s, b.s)))
  ELSE IF a.k = "list" /\ b.k = "list" THEN
    LET n == IF Len(a.l) < Len(b.l) THEN Len(a.l) ELSE Len(b.l)
        D == {j \in 1..n : ~PyEq(a.l[j], b.l[j])}
    IN IF D = {} THEN Ok(OpHolds(operator, IntCmp(Len(a.l), Len(b.l))))
       ELSE LET j == CHOOSE h \in D : \A g \in D : h <= g
            IN PyOrder(a.l[j], b.l[j], operator)
  ELSE Err("TypeError")

(* compare_values: the six operators reach rich_compare; any other operator
   text is a DictWalkOperatorError. *)
compare_values_body(left, right, operator) ==
  IF operator = <<"=", "=">> THEN Ok(PyEq(left, right))
  ELSE IF operator = <<"!", "=">> THEN Ok(~PyEq(left, right))
  ELSE IF IsOrdering(operator) THEN PyOrder(left, right, operator)
  ELSE Err("OperatorError")

(* repr() of a str over this alphabet (no backslash, no control character):
   single quotes, or double quotes when the text holds a single quote and
   no double quote. *)
StrRepr(chars) ==
  LET hasS == \E j \in 1..Len(chars) : chars[j] = "'"
      hasD == \E j \in 1..Len(chars) : chars[j] = "\""
      Esc[j \in 0..Len(chars)] ==
        IF j = 0 THEN <<>>
        ELSE Esc[j - 1] \o (IF chars[j] = "'" THEN <<"\\", "'">> ELSE <<chars[j]>>)
  IN IF hasS /\ ~hasD THEN <<"\"">> \o chars \o <<"\"">>
     ELSE <<"'">> \o Esc[Len(chars)] \o <<"'">>

RECURSIVE PyRepr(_)
PyRepr(v) ==
  CASE v.k = "null" -> <<"N", "o", "n", "e">>
    [] v.k = "bool" -> IF v.b THEN <<"T", "r", "u", "e">> ELSE <<"F", "a", "l", "s", "e">>
    [] v.k = "int" -> IntToStr(v.i)
    [] v.k = "str" -> StrRepr(v.s)
    [] v.k = "list" ->
         LET J[j \in 0..Len(v.l)] ==
               IF j = 0 THEN <<>>
               ELSE J[j - 1] \o (IF j > 1 THEN <<",", " ">> ELSE <<>>) \o PyRepr(v.l[j])
         IN <<"[">> \o J[Len(v.l)] \o <<"]">>
    [] v.k = "map" ->
         LET J[j \in 0..Len(v.m)] ==
               IF j = 0 THEN <<>>
               ELSE J[j - 1] \o (IF j > 1 THEN <<",", " ">> ELSE <<>>)
                    \o StrRepr(v.m[j][1]) \o <<":", " ">> \o PyRepr(v.m[j][2])
         IN <<"{">> \o J[Len(v.m)] \o <<"}">>

(* str(): the text itself for a str, repr() for everything else. *)
PyStr(v) == IF v.k = "str" THEN v.s ELSE PyRepr(v)

----------------------------------------------------------------------------
(* Literals and the filter pipeline compiler *)

RECURSIVE Trim(_)
Trim(str) ==
  IF str # <<>> /\ Head(str) = " " THEN Trim(Tail(str))
  ELSE IF str # <<>> /\ str[Len(str)] = " " THEN Trim(SubSeq(str, 1, Len(str) - 1))
  ELSE str

(* A sequence of characters as one string, to look names up in a table. *)
RECURSIVE Join(_)
Join(chars) == IF chars = <<>> THEN "" ELSE Head(chars) \o Join(Tail(chars))

(* A decimal integer literal of the host: no leading zero unless all zeros. *)
IsPyIntLiteral(str) ==
  LET d == IF str # <<>> /\ Head(str) = "-" THEN Tail(str) ELSE str
  IN /\ d # <<>>
     /\ AllDigits(d)
     /\ (Head(d) = "0" => \A j \in 1..Len(d) : d[j] = "0")

IsQuoted(str, q) ==
  /\ Len(str) >= 2
  /\ str[1] = q /\ str[Len(str)] = q
  /\ \A j \in 2..(Len(str) - 1) : str[j] # q /\ str[j] # "\\"

(* parse_literal: ast.literal_eval, degrading to the raw text.  Modelled for
   texts over this alphabet that are an integer, None, True, False, a quoted
   string without escapes, [] or {}, and for texts that are no host literal
   at all (bare words, operators, filter syntax), which stay raw strings. *)
parse_literal_body(value) ==
  LET t == Trim(value)
  IN IF IsPyIntLiteral(t)
       THEN IntV(IF Head(t) = "-" THEN 0 - DigitsValue(Tail(t)) ELSE DigitsValue(t))
     ELSE IF t = <<"N", "o", "n", "e">> THEN Null
     ELSE IF t = <<"T", "r", "u", "e">> THEN BoolV(TRUE)
     ELSE IF t = <<"F", "a", "l", "s", "e">> THEN BoolV(FALSE)
     ELSE IF IsQuoted(t, "'") \/ IsQuoted(t, "\"") THEN StrV(SubSeq(t, 2, Len(t) - 1))
     ELSE IF t = <<"[", "]">> THEN ListV(<<>>)
     ELSE IF t = <<"{", "}">> THEN MapV(<<>>)
     ELSE StrV(value)

(* split_filter_args: top-level commas, honouring (), [], {}, quotes and
   backslash escapes; <<>> is None, <<args>> is Some. *)
SplitArgsFrom_body(a, i, st) ==
  IF st.failed THEN st
  ELSE IF i > Len(a) THEN st
  ELSE LET ch == a[i]
           push == [st EXCEPT !.current = Append(st.current, ch)]
  IN IF st.escaped THEN SplitArgsFrom(a, i + 1, [push EXCEPT !.escaped = FALSE])
     ELSE IF ch = "\\" THEN SplitArgsFrom(a, i + 1, [push EXCEPT !.escaped = TRUE])
     ELSE IF st.in_single THEN
       SplitArgsFrom(a, i + 1, [push EXCEPT !.in_single = (ch # "'")])
     ELSE IF st.in_double THEN
       SplitArgsFrom(a, i + 1, [push EXCEPT !.in_double = (ch # "\"")])
     ELSE IF ch = "'" THEN SplitArgsFrom(a, i + 1, [push EXCEPT !.in_single = TRUE])
     ELSE IF ch = "\"" THEN SplitArgsFrom(a, i + 1, [push EXCEPT !.in_double = TRUE])
     ELSE IF ch = "(" THEN SplitArgsFrom(a, i + 1, [push EXCEPT !.paren = st.paren + 1])
     ELSE IF ch = ")" THEN
       (IF st.paren - 1 < 0 THEN [st EXCEPT !.failed = TRUE]
        ELSE SplitArgsFrom(a, i + 1, [push EXCEPT !.paren = st.paren - 1]))
     ELSE IF ch = "[" THEN SplitArgsFrom(a, i + 1, [push EXCEPT !.bracket = st.bracket + 1])
     ELSE IF ch = "]" THEN
       (IF st.bracket - 1 < 0 THEN [st EXCEPT !.failed = TRUE]
        ELSE SplitArgsFrom(a, i + 1, [push EXCEPT !.bracket = st.bracket - 1]))
     ELSE IF ch = "{" THEN SplitArgsFrom(a, i + 1, [push EXCEPT !.brace = st.brace + 1])
     ELSE IF ch = "}" THEN
       (IF st.brace - 1 < 0 THEN [st EXCEPT !.failed = TRUE]
        ELSE SplitArgsFrom(a, i + 1, [push EXCEPT !.brace = st.brace - 1]))
     ELSE IF ch = "," /\ st.paren = 0 /\ st.bracket = 0 /\ st.brace = 0 THEN
       SplitArgsFrom(a, i + 1, [st EXCEPT !.out = Append(st.out, Trim(st.current)),
                                          !.current = <<>>])
     ELSE SplitArgsFrom(a, i + 1, push)

split_filter_args_body(args_string) ==
  LET st == SplitArgsFrom(args_string, 1,
              [out |-> <<>>, current |-> <<>>, paren |-> 0, bracket |-> 0,
               brace |-> 0, in_single |-> FALSE, in_double |-> FALSE,
               escaped |-> FALSE, failed |-> FALSE])
  IN IF st.failed THEN <<>>
     ELSE IF st.in_single \/ st.in_double \/ st.paren # 0 \/ st.bracket # 0 \/ st.brace # 0
       THEN <<>>
     ELSE IF Trim(st.current) # <<>> THEN <<Append(st.out, Trim(st.current))>>
     ELSE IF Trim(args_string) # <<>> THEN <<>>
     ELSE <<st.out>>

RootWord == <<"$", "$", "r", "o", "o", "t">>


(* resolve_root_reference_value: a strict get against the root. *)
resolve_root_reference_value_body(root_data, value) ==
  IF value = RootWord THEN get(root_data, <<".">>, <<>>, TRUE)
  ELSE IF StartsWith(value, RootWord \o <<".">>)
    THEN get(root_data, DropFirst(value, 7), <<>>, TRUE)
  ELSE IF StartsWith(value, RootWord \o <<"|">>)
    THEN get(root_data, <<".", "|">> \o DropFirst(value, 7), <<>>, TRUE)
  ELSE Err("ParseError")

(* parse_filter_args: root_data is an Option (<<>> or <<root>>); the result is
   an Option of the argument values. *)
ParseArgTokens_body(arg_tokens, root_data) ==
  IF arg_tokens = <<>> THEN <<<<>>>>
  ELSE LET token == Head(arg_tokens)
           rest == ParseArgTokens(Tail(arg_tokens), root_data)
       IN IF StartsWith(token, RootWord) THEN
            (IF root_data = <<>> THEN <<>>
             ELSE LET resolved == resolve_root_reference_value(root_data[1], token)
                  IN IF ~resolved.ok \/ rest = <<>> THEN <<>>
                     ELSE <<<<resolved.val>> \o rest[1]>>)
          ELSE IF rest = <<>> THEN <<>>
          ELSE <<<<parse_literal(token)>> \o rest[1]>>

parse_filter_args_body(args_string, root_data) ==
  LET arg_tokens == split_filter_args(args_string)
  IN IF arg_tokens = <<>> THEN <<>> ELSE ParseArgTokens(arg_tokens[1], root_data)

(* The catalogue of compile_builtin_filter, by arity. *)
FilterNames0 ==
  {"inc", "dec", "double", "square", "string", "int", "float", "decimal", "round",
   "floor", "ceil", "quote", "even", "odd", "neg", "sqrt", "max", "min", "len",
   "abs", "sign", "log", "exp", "median", "q1", "q3", "iqr", "mode", "stdev",
   "sum", "avg", "unique", "sorted", "first", "last", "lower", "upper", "title",
   "strip", "split", "bool", "is_empty", "non_empty", "to_datetime", "timestamp",
   "age_seconds"}

FilterNames1 ==
  {"round", "pow", "rpow", "root", "log", "pct", "pctile", "sorted", "contains",
   "in", "strip", "split", "join", "startswith", "endswith", "matches", "default",
   "type_is", "to_datetime", "before", "after", "gt", "lt", "gte", "lte", "add",
   "sub", "mul", "div", "mod"}

FilterNames2 == {"clamp", "between", "replace"}

(* compile_builtin_filter as an Option of [name, args]. *)
compile_builtin_filter_body(name, args) ==
  LET n == Len(args)
      known == \/ name \in {"pick", "unpick"}
               \/ (name = "coalesce" /\ n >= 1)
               \/ (n = 0 /\ name \in FilterNames0)
               \/ (n = 1 /\ name \in FilterNames1)
               \/ (n = 2 /\ name \in FilterNames2)
  IN IF known THEN <<[name |-> name, args |-> args]>> ELSE <<>>

IsWordChar(c) == c \in Letters \/ c \in Digits \/ c = "_"

(* PATH_FILTER_SEGMENT_RE: "$", a name, optional "(" args ")", optional "[]".
   The result is an Option of [name, has_args, args, map_suffix]. *)
PathFilterSegmentMatch_body(segment) ==
  LET n == Len(segment)
      W == {j \in 2..n : \A h \in 2..j : IsWordChar(segment[h])}
      e == IF W = {} THEN 1 ELSE CHOOSE j \in W : \A h \in W : h <= j
      rest == SubSeq(segment, e + 1, n)
      suffix == EndsWith(rest, <<"[", "]">>)
      body == IF suffix THEN SubSeq(rest, 1, Len(rest) - 2) ELSE rest
      withArgs == Len(body) >= 2 /\ body[1] = "(" /\ body[Len(body)] = ")"
  IN IF n >= 2 /\ segment[1] = "$" /\ e >= 2
        /\ (segment[2] \in Letters \/ segment[2] = "_")
        /\ (body = <<>> \/ withArgs)
     THEN <<[name |-> SubSeq(segment, 2, e), has_args |-> withArgs,
             args |-> IF withArgs THEN SubSeq(body, 2, Len(body) - 1) ELSE <<>>,
             map_suffix |-> suffix]>>
     ELSE <<>>

(* str::split at every "|" character. *)
SplitOn_body(str, sep) ==
  LET S == {j \in 1..Len(str) : str[j] = sep}
  IN IF S = {} THEN <<str>>
     ELSE LET j == CHOOSE h \in S : \A g \in S : h <= g
          IN <<SubSeq(str, 1, j - 1)>> \o SplitOn(DropFirst(str, j), sep)

CompileSegments_body(segments, root_data) ==
  IF segments = <<>> THEN <<<<>>>>
  ELSE LET captures == PathFilterSegmentMatch(Head(segments))
       IN IF captures = <<>> THEN <<>>
          ELSE LET c == captures[1]
                   args == IF c.has_args THEN parse_filter_args(c.args, root_data)
                           ELSE <<<<>>>>
               IN IF args = <<>> THEN <<>>
                  ELSE LET filter == compile_builtin_filter(Join(c.name), args[1])
                       IN IF filter = <<>> THEN <<>>
                          ELSE LET rest == CompileSegments(Tail(segments), root_data)
                               IN IF rest = <<>> THEN <<>>
                                  ELSE <<<<[filter |-> filter[1],
                                            map_suffix |-> c.map_suffix]>> \o rest[1]>>

(* compile_builtin_pipeline as an Option of the sequence of steps. *)
compile_builtin_pipeline_body(expression, root_data) ==
  IF ~StartsWith(expression, <<"$">>) THEN <<>>
  ELSE CompileSegments(SplitOn(expression, "|"), root_data)

----------------------------------------------------------------------------
(* The filter evaluator.  The evaluator is modelled for the filters inc,
   len, even, odd, gt, lt, gte and lte; the other names of the catalogue
   compile as in the code and evaluate to the error kind "Unmodelled", which
   no input of the specifications below reaches. *)

(* compare_with_fallback: on a TypeError both sides are stringified. *)
compare_with_fallback_body(left, right, operator) ==
  LET direct == compare_values(left, right, operator)
  IN IF direct.ok THEN direct
     ELSE IF direct.err # "TypeError" THEN direct
     ELSE compare_values(StrV(PyStr(left)), StrV(PyStr(right)), operator)

(* apply_binary_op(value, "__add__", 1): numbers add; str and list have
   __add__ and reject an int with a TypeError; None and dict have no
   __add__ at all (AttributeError). *)
apply_inc_body(value) ==
  IF IsNumeric(value) THEN Ok(IntV(NumVal(value) + 1))
  ELSE IF value.k \in {"str", "list"} THEN Err("TypeError")
  ELSE Err("AttributeError")

apply_builtin_filter_body(value, filter) ==
  CASE filter.name = "inc" -> apply_inc(value)
    [] filter.name = "len" ->
         (CASE value.k = "str" -> Ok(IntV(Len(value.s)))
            [] value.k = "list" -> Ok(IntV(Len(value.l)))
            [] value.k = "map" -> Ok(IntV(Len(value.m)))
            [] OTHER -> Err("TypeError"))
    [] filter.name \in {"even", "odd"} ->
         IF ~IsNumeric(value) THEN Ok(BoolV(FALSE))
         ELSE Ok(BoolV((NumVal(value) % 2) = (IF filter.name = "even" THEN 0 ELSE 1)))
    [] filter.name \in {"gt", "lt", "gte", "lte"} ->
         LET operator == CASE filter.name = "gt" -> <<">">>
                           [] filter.name = "lt" -> <<"<">>
                           [] filter.name = "gte" -> <<">", "=">>
                           [] filter.name = "lte" -> <<"<", "=">>
             r == compare_with_fallback(value, filter.args[1], operator)
         IN IF r.ok THEN Ok(BoolV(r.val)) ELSE r
    [] OTHER -> Err("Unmodelled")

(* A run of steps applied to one value, stopping at the first error. *)
ApplySteps_body(res, steps) ==
  IF ~res.ok \/ steps = <<>> THEN res
  ELSE ApplySteps(apply_builtin_filter(res.val, Head(steps).filter), Tail(steps))

(* The run of steps applied to each item of a list, stopping at the first error. *)
MapSteps_body(items, steps, mapped) ==
  IF items = <<>> THEN Ok(ListV(mapped))
  ELSE LET r == ApplySteps(Ok(Head(items)), steps)
       IN IF ~r.ok THEN r ELSE MapSteps(Tail(items), steps, Append(mapped, r.val))

ApplyPipelineFrom_body(current, pipeline, idx) ==
  IF idx > Len(pipeline) THEN Ok(current)
  ELSE IF pipeline[idx].map_suffix /\ IsList(current) THEN
    LET E == {j \in idx..Len(pipeline) : \A h \in idx..j : pipeline[h].map_suffix}
        run_end == CHOOSE j \in E : \A h \in E : h <= j
        r == MapSteps(current.l, SubSeq(pipeline, idx, run_end), <<>>)
    IN IF ~r.ok THEN r ELSE ApplyPipelineFrom(r.val, pipeline, run_end + 1)
  ELSE LET r == apply_builtin_filter(current, pipeline[idx].filter)
       IN IF ~r.ok THEN r ELSE ApplyPipelineFrom(r.val, pipeline, idx + 1)

apply_builtin_pipeline_body(input, pipeline) == ApplyPipelineFrom(input, pipeline, 1)

----------------------------------------------------------------------------
(* The predicate sub-language *)

(* The end of an operand that starts at i: the first position at depth 0
   holding ")", "&&", "||" or "!", else the end of the text. *)
OperandEnd_body(e, i, paren_depth) ==
  IF i > Len(e) THEN i
  ELSE LET c == e[i] IN
    IF c = "(" THEN OperandEnd(e, i + 1, paren_depth + 1)
    ELSE IF c = ")" THEN
      (IF paren_depth = 0 THEN i ELSE OperandEnd(e, i + 1, paren_depth - 1))
    ELSE IF paren_depth = 0 /\ i + 1 <= Len(e) /\ SubSeq(e, i, i + 1) \in {<<"&", "&">>, <<"|", "|">>}
      THEN i
    ELSE IF paren_depth = 0 /\ c = "!" THEN i
    ELSE OperandEnd(e, i + 1, paren_depth)

TokenizeFrom_body(e, i, tokens) ==
  IF i > Len(e) THEN tokens
  ELSE LET ch == e[i] IN
    IF ch = " " THEN TokenizeFrom(e, i + 1, tokens)
    ELSE IF i + 1 <= Len(e) /\ SubSeq(e, i, i + 1) = <<"&", "&">>
      THEN TokenizeFrom(e, i + 2, Append(tokens, <<"&", "&">>))
    ELSE IF i + 1 <= Len(e) /\ SubSeq(e, i, i + 1) = <<"|", "|">>
      THEN TokenizeFrom(e, i + 2, Append(tokens, <<"|", "|">>))
    ELSE IF ch \in {"(", ")", "!"} THEN TokenizeFrom(e, i + 1, Append(tokens, <<ch>>))
    ELSE LET stop == OperandEnd(e, i, 0)
             operand == Trim(SubSeq(e, i, stop - 1))
         IN TokenizeFrom(e, stop, IF operand # <<>> THEN Append(tokens, operand) ELSE tokens)

tokenize_boolean_filter_expression_body(expression) == TokenizeFrom(expression, 1, <<>>)

(* PredicateParser.  A parse result is [ok |-> TRUE, expr, idx] (idx is the
   zero-based position of the next token) or [ok |-> FALSE].  Expressions are
   [t |-> "Pipeline", p], [t |-> "Not", e], [t |-> "And", l, r], [t |-> "Or", l, r]. *)
Peek(tokens, idx) == IF idx >= Len(tokens) THEN <<>> ELSE <<tokens[idx + 1]>>


parse_primary_body(tokens, idx) ==
  IF Peek(tokens, idx) = <<<<"(">>>> THEN
    LET inner == parse_or(tokens, idx + 1)
    IN IF ~inner.ok THEN inner
       ELSE IF Peek(tokens, inner.idx) # <<<<")">>>> THEN [ok |-> FALSE]
       ELSE [inner EXCEPT !.idx = inner.idx + 1]
  ELSE IF Peek(tokens, idx) = <<>> THEN [ok |-> FALSE]
  ELSE LET pipeline == compile_builtin_pipeline(tokens[idx + 1], <<>>)
       IN IF pipeline = <<>> THEN [ok |-> FALSE]
          ELSE [ok |-> TRUE, expr |-> [t |-> "Pipeline", p |-> pipeline[1]], idx |-> idx + 1]

parse_not_body(tokens, idx) ==
  IF Peek(tokens, idx) = <<<<"!">>>> THEN
    LET inner == parse_not(tokens, idx + 1)
    IN IF ~inner.ok THEN inner
       ELSE [inner EXCEPT !.expr = [t |-> "Not", e |-> inner.expr]]
  ELSE parse_primary(tokens, idx)

ParseAndLoop_body(tokens, left) ==
  IF ~left.ok \/ Peek(tokens, left.idx) # <<<<"&", "&">>>> THEN left
  ELSE LET right == parse_not(tokens, left.idx + 1)
       IN IF ~right.ok THEN right
          ELSE ParseAndLoop(tokens, [ok |-> TRUE, idx |-> right.idx,
                 expr |-> [t |-> "And", l |-> left.expr, r |-> right.expr]])

parse_and_body(tokens, idx) == ParseAndLoop(tokens, parse_not(tokens, idx))

(* A faulty variant of the loop of parse_or that reads the right operand of
   "||" with parse_not, as if "||" bound as tightly as "&&": C26 fails with it. *)
ParseOrLoopTight(tokens, left) ==
  IF ~left.ok \/ Peek(tokens, left.idx) \notin {<<<<"|", "|">>>>, <<<<"&", "&">>>>} THEN left
  ELSE LET right == parse_not(tokens, left.idx + 1)
       IN IF ~right.ok THEN right
          ELSE ParseOrLoop(tokens, [ok |-> TRUE, idx |-> right.idx,
                 expr |-> [t |-> IF Peek(tokens, left.idx) = <<<<"|", "|">>>> THEN "Or" ELSE "And",
                           l |-> left.expr, r |-> right.expr]])

ParseOrLoop_body(tokens, left) ==
  IF ~left.ok \/ Peek(tokens, left.idx) # <<<<"|", "|">>>> THEN left
  ELSE LET right == parse_and(tokens, left.idx + 1)
       IN IF ~right.ok THEN right
          ELSE ParseOrLoop(tokens, [ok |-> TRUE, idx |-> right.idx,
                 expr |-> [t |-> "Or", l |-> left.expr, r |-> right.expr]])

parse_or_body(tokens, idx) == ParseOrLoop(tokens, parse_and(tokens, idx))

(* PredicateParser::parse: the whole token list must be consumed. *)
parse_body(tokens) ==
  LET result == parse_or(tokens, 0)
  IN IF result.ok /\ result.idx # Len(tokens) THEN [ok |-> FALSE] ELSE result

(* compile_builtin_or_boolean_predicate: Err(message) is [ok |-> FALSE];
   Ok(None) and Ok(Some(expr)) are [ok |-> TRUE, some |-> <<>>] and
   [ok |-> TRUE, some |-> <<expr>>]. *)
compile_builtin_or_boolean_predicate_body(expr) ==
  IF Contains(expr, <<"&", "&">>) \/ Contains(expr, <<"|", "|">>) \/ Contains(expr, <<"!">>)
  THEN LET r == parse(tokenize_boolean_filter_expression(expr))
       IN IF r.ok THEN [ok |-> TRUE, some |-> <<r.expr>>] ELSE [ok |-> FALSE]
  ELSE LET pipeline == compile_builtin_pipeline(expr, <<>>)
       IN IF pipeline # <<>>
          THEN [ok |-> TRUE, some |-> <<[t |-> "Pipeline", p |-> pipeline[1]]>>]
          ELSE [ok |-> TRUE, some |-> <<>>]

(* eval_predicate_expr: a result holding a BOOLEAN, or the error of a pipeline. *)
eval_predicate_expr_body(expr, value) ==
  CASE expr.t = "Pipeline" ->
         LET r == apply_builtin_pipeline(value, expr.p)
         IN IF r.ok THEN Ok(is_truthy(r.val)) ELSE r
    [] expr.t = "Not" ->
         LET r == eval_predicate_expr(expr.e, value)
         IN IF r.ok THEN Ok(~r.val) ELSE r
    [] expr.t = "And" ->
         LET lft == eval_predicate_expr(expr.l, value)
         IN IF ~lft.ok THEN lft
            ELSE IF ~lft.val THEN Ok(FALSE)
            ELSE eval_predicate_expr(expr.r, value)
    [] expr.t = "Or" ->
         LET lft == eval_predicate_expr(expr.l, value)
         IN IF ~lft.ok THEN lft
            ELSE IF lft.val THEN Ok(TRUE)
            ELSE eval_predicate_expr(expr.r, value)

(* resolve_predicate_filter: a message becomes a parse error. *)
resolve_predicate_filter_body(expr) == compile_builtin_or_boolean_predicate(expr)

----------------------------------------------------------------------------
(* Path parsing *)

(* validate_filter_token: TRUE when the filter segment is accepted. *)
validate_filter_token_body(list_key, field, operator, value) ==
  /\ ~StartsWith(field, <<"$">>)
  /\ IF field = <<".">> THEN TRUE
     ELSE IF StartsWith(field, <<".", "|">>)
       THEN compile_builtin_pipeline(DropFirst(field, 2), <<>>) # <<>>
     ELSE compile_builtin_or_boolean_predicate(field).ok
  /\ compile_builtin_or_boolean_predicate(value).ok

(* parse_path: Ok(tokens) as [ok |-> TRUE, val |-> <<[raw, kind], ...>>]. *)
ParseTokens_body(raw_tokens, tokens) ==
  IF raw_tokens = <<>> THEN Ok(tokens)
  ELSE LET raw_token == Head(raw_tokens)
           kind == parse_token(raw_token)
       IN IF kind.kind = "Filter"
             /\ ~validate_filter_token(kind.list_key, kind.field, kind.operator, kind.value)
          THEN Err("ParseError")
          ELSE ParseTokens(Tail(raw_tokens), Append(tokens, [raw |-> raw_token, kind |-> kind]))

parse_path_body(path) ==
  IF path = <<>> THEN Err("ParseError")
  ELSE ParseTokens(split_raw_path_tokens(path), <<>>)

----------------------------------------------------------------------------
(* The read walker *)

(* The values under key of the dict elements of a list that have the key. *)
ProjectKey_body(items, key) ==
  IF items = <<>> THEN <<>>
  ELSE (IF IsDict(Head(items)) /\ DictHas(Head(items), key)
        THEN DictGet(Head(items), key) ELSE <<>>)
       \o ProjectKey(Tail(items), key)

resolve_get_token_body(current, key) ==
  IF IsDict(current) THEN
    (IF DictHas(current, key) THEN Ok(DictGet(current, key)[1]) ELSE Err("KeyError"))
  ELSE IF IsList(current) THEN Ok(ListV(ProjectKey(current.l, key)))
  ELSE Err("TypeError")

resolve_map_token_body(current, key) ==
  IF ~IsList(current) THEN Err("TypeError")
  ELSE Ok(ListV(ProjectKey(current.l, key)))

iter_child_nodes_body(node) ==
  IF IsDict(node) THEN DictValues(node)
  ELSE IF IsList(node) THEN node.l
  ELSE <<>>

resolve_wildcard_token_body(current) ==
  IF iter_child_nodes(current) = <<>> /\ ~IsDict(current) /\ ~IsList(current)
  THEN Err("TypeError")
  ELSE Ok(ListV(iter_child_nodes(current)))

(* collect_descendants: the nodes below node, each before its own descendants. *)
RECURSIVE DescendantsPostOrder(_)
(* A faulty variant of the descent that lists a node after its own
   descendants: C9 fails with it. *)
DescendantsPostOrder(children) ==
  IF children = <<>> THEN <<>>
  ELSE collect_descendants(Head(children)) \o <<Head(children)>>
       \o DescendantsPostOrder(Tail(children))

DescendantsOfAll_body(children) ==
  IF children = <<>> THEN <<>>
  ELSE <<Head(children)>> \o collect_descendants(Head(children))
       \o DescendantsOfAll(Tail(children))

collect_descendants_body(node) == DescendantsOfAll(iter_child_nodes(node))

resolve_deep_wildcard_token_body(current) ==
  IF iter_child_nodes(current) = <<>> /\ ~IsDict(current) /\ ~IsList(current)
  THEN Err("TypeError")
  ELSE Ok(ListV(DescendantsOfAll(iter_child_nodes(current))))

resolve_index_token_body(current, key, index) ==
  IF ~IsDict(current) THEN Err("TypeError")
  ELSE IF ~DictHas(current, key) THEN Err("KeyError")
  ELSE LET list_value == DictGet(current, key)[1] IN
    IF ~IsList(list_value) THEN Err("TypeError")
    ELSE LET len == Len(list_value.l) IN
      IF index >= 0 /\ index < len THEN Ok(list_value.l[index + 1])
      ELSE IF index < 0 /\ index >= 0 - len THEN Ok(list_value.l[len + index + 1])
      ELSE Err("IndexError")

(* The clamping of one slice bound against len. *)
ClampBound(bound, len) ==
  LET shifted == IF bound < 0 THEN bound + len ELSE bound
  IN IF shifted < 0 THEN 0 ELSE IF shifted > len THEN len ELSE shifted

resolve_slice_token_body(current, key, start, end) ==
  IF ~IsDict(current) THEN Err("TypeError")
  ELSE IF ~DictHas(current, key) THEN Err("KeyError")
  ELSE LET list_value == DictGet(current, key)[1] IN
    IF ~IsList(list_value) THEN Err("TypeError")
    ELSE LET len == Len(list_value.l)
             slice_start == ClampBound(IF start = <<>> THEN 0 ELSE start[1], len)
             slice_end == ClampBound(IF end = <<>> THEN len ELSE end[1], len)
         IN IF slice_start >= slice_end THEN Ok(ListV(<<>>))
            ELSE Ok(ListV(SubSeq(list_value.l, slice_start + 1, slice_end)))

----------------------------------------------------------------------------
(* Filter predicates *)

(* compile_filter_matcher: Ok(matcher) or a parse error. *)
compile_filter_matcher_body(field, value) ==
  LET field_predicate == resolve_predicate_filter(field)
      value_pipeline == compile_builtin_pipeline(value, <<>>)
      value_predicate == resolve_predicate_filter(value)
      field_plain == field = <<".">> \/ StartsWith(field, <<".", "|">>)
      field_resolver ==
        IF field = <<".">> THEN [t |-> "CurrentItem"]
        ELSE IF StartsWith(field, <<".", "|">>) THEN
          (IF compile_builtin_pipeline(DropFirst(field, 2), <<>>) # <<>>
           THEN [t |-> "CurrentItemBuiltinPipeline",
                 p |-> compile_builtin_pipeline(DropFirst(field, 2), <<>>)[1]]
           ELSE [t |-> "CurrentItemTransform"])
        ELSE IF field_predicate.some # <<>>
          THEN [t |-> "PredicateFilter", e |-> field_predicate.some[1]]
        ELSE [t |-> "Key", field |-> field]
      value_matcher ==
        IF value_pipeline # <<>> THEN [t |-> "BuiltinPipeline", p |-> value_pipeline[1]]
        ELSE IF value_predicate.some # <<>>
          THEN [t |-> "PredicateExpr", e |-> value_predicate.some[1]]
        ELSE [t |-> "Literal", v |-> parse_literal(value)]
  IN IF ~field_plain /\ ~field_predicate.ok THEN Err("ParseError")
     ELSE IF value_pipeline = <<>> /\ ~value_predicate.ok THEN Err("ParseError")
     ELSE Ok([field_resolver |-> field_resolver, value_matcher |-> value_matcher,
              raw_value |-> value])

resolve_filter_field_value_compiled_body(matcher, item) ==
  LET r == matcher.field_resolver IN
  CASE r.t = "CurrentItem" -> Ok(item)
    [] r.t = "CurrentItemBuiltinPipeline" -> apply_builtin_pipeline(item, r.p)
    [] r.t = "CurrentItemTransform" -> Ok(Null)
    [] r.t = "PredicateFilter" ->
         LET e == eval_predicate_expr(r.e, item)
         IN IF e.ok THEN Ok(BoolV(e.val)) ELSE e
    [] r.t = "Key" ->
         IF IsDict(item) /\ DictHas(item, r.field) THEN Ok(DictGet(item, r.field)[1])
         ELSE Ok(Null)

(* A faulty variant of OrderedLiteralMatch that never retries a string
   field on its parsed text: C15 fails with it. *)
OrderedLiteralMatchUnparsed(operator, field_value, expected_value, raw_value) ==
  LET direct == compare_values(field_value, expected_value, operator)
      textual == compare_values(StrV(PyStr(field_value)), StrV(raw_value), operator)
  IN IF direct.ok \/ direct.err # "TypeError" THEN direct
     ELSE textual

(* The ordering operators of filter_matches_compiled against a literal:
   direct comparison, then the parsed text of a string field, then text
   against the raw value; only a TypeError moves on to the next attempt. *)
OrderedLiteralMatch_body(operator, field_value, expected_value, raw_value) ==
  LET direct == compare_values(field_value, expected_value, operator)
      parsed == compare_values(parse_literal(field_value.s), expected_value, operator)
      textual == compare_values(StrV(PyStr(field_value)), StrV(raw_value), operator)
  IN IF direct.ok \/ direct.err # "TypeError" THEN direct
     ELSE IF IsStr(field_value) /\ (parsed.ok \/ parsed.err # "TypeError") THEN parsed
     ELSE textual

(* filter_matches_compiled: a result holding a BOOLEAN.  root_data is an Option. *)
filter_matches_compiled_body(operator, matcher, item, root_data) ==
  LET fv == resolve_filter_field_value_compiled(matcher, item)
      vm == matcher.value_matcher
      is_eq == operator = <<"=", "=">>
      is_ne == operator = <<"!", "=">>
  IN IF ~fv.ok THEN fv
     ELSE IF vm.t = "BuiltinPipeline" THEN
       (IF is_eq \/ is_ne THEN
          LET predicate_value == apply_builtin_pipeline(fv.val, vm.p)
          IN IF ~predicate_value.ok THEN predicate_value
             ELSE Ok(IF is_eq THEN is_truthy(predicate_value.val)
                     ELSE ~is_truthy(predicate_value.val))
        ELSE Err("OperatorError"))
     ELSE IF vm.t = "PredicateExpr" THEN
       (IF is_eq \/ is_ne THEN
          LET e == eval_predicate_expr(vm.e, fv.val)
          IN IF ~e.ok THEN e ELSE Ok(IF is_eq THEN e.val ELSE ~e.val)
        ELSE Err("OperatorError"))
     ELSE LET expected ==
                IF StartsWith(matcher.raw_value, RootWord) /\ root_data # <<>>
                THEN resolve_root_reference_value(root_data[1], matcher.raw_value)
                ELSE Ok(vm.v)
          IN IF ~expected.ok THEN expected
             ELSE IF is_eq \/ is_ne THEN
               LET result == \/ PyEq(fv.val, expected.val)
                             \/ PyStr(fv.val) = matcher.raw_value
               IN Ok(IF is_eq THEN result ELSE ~result)
             ELSE OrderedLiteralMatch(operator, fv.val, expected.val, matcher.raw_value)

(* The per-item matches of a list, stopping at the first error:
   Ok(<<BOOLEAN, ...>>) wrapped as [ok |-> TRUE, val |-> mask]. *)
MatchMask_body(operator, matcher, items, root_data, mask) ==
  IF items = <<>> THEN Ok(mask)
  ELSE LET r == filter_matches_compiled(operator, matcher, Head(items), root_data)
       IN IF ~r.ok THEN r
          ELSE MatchMask(operator, matcher, Tail(items), root_data, Append(mask, r.val))

(* A faulty variant of resolve_filter_token that fails with a KeyError when
   the mapping has no entry for the list key: C30 fails with it. *)
resolve_filter_token_missing_key(current, root_data, list_key, field, operator, value) ==
  LET matcher == compile_filter_matcher(field, value)
      source_list_obj == IF IsDict(current) THEN DictGet(current, list_key)[1] ELSE current
  IN IF ~matcher.ok THEN matcher
     ELSE IF IsDict(current) /\ ~DictHas(current, list_key) THEN Err("KeyError")
     ELSE IF ~IsList(source_list_obj) THEN Err("TypeError")
     ELSE LET mask == MatchMask(operator, matcher.val, source_list_obj.l, <<root_data>>, <<>>)
          IN IF ~mask.ok THEN mask
             ELSE Ok(ListV(SelectByMask(source_list_obj.l, mask.val)))

resolve_filter_token_body(current, root_data, list_key, field, operator, value) ==
  LET matcher == compile_filter_matcher(field, value)
      source_list_obj ==
        IF IsDict(current)
        THEN (IF DictHas(current, list_key) THEN DictGet(current, list_key)[1]
              ELSE ListV(<<>>))
        ELSE current
  IN IF ~matcher.ok THEN matcher
     ELSE IF ~IsList(source_list_obj) THEN Err("TypeError")
     ELSE LET mask == MatchMask(operator, matcher.val, source_list_obj.l, <<root_data>>, <<>>)
          IN IF ~mask.ok THEN mask
             ELSE Ok(ListV(SelectByMask(source_list_obj.l, mask.val)))

----------------------------------------------------------------------------
(* get and exists *)

(* A faulty variant of is_soft_resolution_error that counts IndexError
   among the soft errors: C14 fails with it. *)
is_soft_or_index_error(err) == err \in {"KeyError", "TypeError", "OperatorError", "IndexError"}

(* A faulty variant of is_soft_resolution_error that leaves out the operator
   error: C27 fails with it. *)
is_soft_lookup_error(err) == err \in {"KeyError", "TypeError"}

is_soft_resolution_error(err) == err \in {"KeyError", "TypeError", "OperatorError"}

resolve_token_body(current, root_data, kind) ==
  CASE kind.kind = "Get" -> resolve_get_token(current, kind.key)
    [] kind.kind = "Map" -> resolve_map_token(current, kind.key)
    [] kind.kind = "Wildcard" -> resolve_wildcard_token(current)
    [] kind.kind = "DeepWildcard" -> resolve_deep_wildcard_token(current)
    [] kind.kind = "Index" -> resolve_index_token(current, kind.key, kind.index)
    [] kind.kind = "Slice" -> resolve_slice_token(current, kind.key, kind.start, kind.end)
    [] kind.kind = "Filter" ->
         resolve_filter_token(current, root_data, kind.list_key, kind.field,
                              kind.operator, kind.value)
    [] kind.kind = "Root" -> Ok(current)

apply_output_transform_body(current, transform, root_data) ==
  LET pipeline == compile_builtin_pipeline(transform, <<root_data>>)
  IN IF pipeline # <<>> THEN apply_builtin_pipeline(current, pipeline[1])
     ELSE Ok(current)

(* The token loop shared by get and exists: Ok(current) after the last
   token, or the error of the first token that fails to resolve. *)
WalkTokens_body(tokens, current, root_data) ==
  IF tokens = <<>> THEN Ok(current)
  ELSE IF Head(tokens).kind.kind = "Root" THEN WalkTokens(Tail(tokens), root_data, root_data)
  ELSE LET resolved == resolve_token(current, root_data, Head(tokens).kind)
       IN IF ~resolved.ok THEN resolved
          ELSE WalkTokens(Tail(tokens), resolved.val, root_data)

(* RustDictWalk::get; default is an Option. *)
get_body(root_data, path, default, strict) ==
  LET split == split_path_and_transform(path)
      parsed == parse_path(split.base)
      walked == WalkTokens(parsed.val, root_data, root_data)
  IN IF split.base = <<".">> THEN
       (IF split.transform # <<>>
        THEN apply_output_transform(root_data, split.transform[1], root_data)
        ELSE Ok(root_data))
     ELSE IF ~parsed.ok THEN parsed
     ELSE IF ~walked.ok THEN
       (IF is_soft_resolution_error(walked.err) THEN
          (IF strict THEN Err("ResolutionError")
           ELSE Ok(IF default = <<>> THEN Null ELSE default[1]))
        ELSE walked)
     ELSE IF split.transform # <<>>
       THEN apply_output_transform(walked.val, split.transform[1], root_data)
     ELSE walked

(* RustDictWalk::exists: the result value is a BOOLEAN. *)
exists_body(root_data, path, strict) ==
  LET parsed == parse_path(path)
      walked == WalkTokens(parsed.val, root_data, root_data)
  IN IF ~parsed.ok THEN parsed
     ELSE IF ~walked.ok THEN
       (IF is_soft_resolution_error(walked.err) THEN
          (IF strict THEN Err("ResolutionError") ELSE Ok(FALSE))
        ELSE walked)
     ELSE Ok(TRUE)

----------------------------------------------------------------------------
(* The object heap of one write call.

   set and unset change dicts and lists in place, attach fresh containers,
   drop the object returned for the root and may store one new value at
   several places, so the write walkers run over a heap: a sequence of
   container objects whose slots hold cells.  A cell is a scalar value or
   a reference [k |-> "ref", id |-> n] to the n-th object.  A walker returns
   [ok |-> TRUE, h, val] with the heap after the call and the returned cell,
   or [ok |-> FALSE, h, err] with the heap as the failure left it. *)

Ref(id) == [k |-> "ref", id |-> id]

HOk(h, cell) == [ok |-> TRUE, h |-> h, val |-> cell]
HErr(h, kind) == [ok |-> FALSE, h |-> h, err |-> kind]

HIsDict(h, cell) == cell.k = "ref" /\ h[cell.id].k = "map"
HIsList(h, cell) == cell.k = "ref" /\ h[cell.id].k = "list"

(* PyDict::new_bound / PyList::empty_bound and any other fresh container. *)
Alloc(h, obj) == [h |-> Append(h, obj), val |-> Ref(Len(h) + 1)]

(* A value placed on the heap: one object per container. *)
RECURSIVE Load(_, _)
RECURSIVE LoadAll(_, _, _)
LoadAll(h, values, cells) ==
  IF values = <<>> THEN [h |-> h, val |-> cells]
  ELSE LET one == Load(h, Head(values))
       IN LoadAll(one.h, Tail(values), Append(cells, one.val))

Load(h, v) ==
  IF v.k = "list" THEN
    LET items == LoadAll(h, v.l, <<>>)
    IN Alloc(items.h, ListV(items.val))
  ELSE IF v.k = "map" THEN
    LET items == LoadAll(h, DictValues(v), <<>>)
    IN Alloc(items.h, MapV([j \in 1..Len(v.m) |-> <<v.m[j][1], items.val[j]>>]))
  ELSE [h |-> h, val |-> v]

(* The value a cell stands for. *)
RECURSIVE Val(_, _)
Val(h, cell) ==
  IF cell.k # "ref" THEN cell
  ELSE LET obj == h[cell.id] IN
    IF obj.k = "list" THEN ListV([j \in 1..Len(obj.l) |-> Val(h, obj.l[j])])
    ELSE MapV([j \in 1..Len(obj.m) |-> <<obj.m[j][1], Val(h, obj.m[j][2])>>])

HDictSet(h, id, key, cell) == [h EXCEPT ![id] = DictSet(h[id], key, cell)]
HDictDel(h, id, key) == [h EXCEPT ![id] = DictDel(h[id], key)]
HListSet(h, id, idx, cell) == [h EXCEPT ![id] = ListV([h[id].l EXCEPT ![idx + 1] = cell])]
HListAppend(h, id, cell) == [h EXCEPT ![id] = ListV(Append(h[id].l, cell))]

----------------------------------------------------------------------------
(* Write helpers *)

(* A faulty variant of path_uses_root_token that looks at the first token
   only: C5 fails with it. *)
path_starts_with_root_token(tokens) == tokens # <<>> /\ tokens[1].kind.kind = "Root"

path_uses_root_token(tokens) == \E j \in 1..Len(tokens) : tokens[j].kind.kind = "Root"

(* A faulty variant of ensure_path_resolves that resolves nothing: C6 fails
   with it. *)
ensure_path_unchecked(root_data, tokens, until) == Ok(Null)

(* ensure_path_resolves: Ok, a ResolutionError for a soft error, or the hard error. *)
ensure_path_resolves_body(root_data, tokens, until) ==
  LET walked == WalkTokens(SubSeq(tokens, 1, until), root_data, root_data)
  IN IF walked.ok THEN Ok(Null)
     ELSE IF is_soft_resolution_error(walked.err) THEN Err("ResolutionError")
     ELSE walked

is_dict_or_list(h, cell) == HIsDict(h, cell) \/ HIsList(h, cell)

new_write_container(h) == Alloc(h, MapV(<<>>))

(* resolve_new_value: existing_value is an Option of a cell.  A "$$root"
   string is read from the live root with a strict get; a string that
   compiles as a pipeline is applied to the existing value; the value read
   or computed is placed on the heap as a fresh object. *)
resolve_new_value_body(h, existing_value, new_value, root_data) ==
  IF new_value.k # "str" THEN HOk(h, new_value)
  ELSE IF StartsWith(new_value.s, RootWord) THEN
    LET r == resolve_root_reference_value(Val(h, root_data), new_value.s)
        loaded == Load(h, r.val)
    IN IF ~r.ok THEN HErr(h, r.err) ELSE HOk(loaded.h, loaded.val)
  ELSE LET pipeline == compile_builtin_pipeline(new_value.s, <<>>)
           existing == IF existing_value = <<>> THEN Null ELSE Val(h, existing_value[1])
           r == apply_builtin_pipeline(existing, pipeline[1])
           loaded == Load(h, r.val)
       IN IF pipeline = <<>> THEN HOk(h, new_value)
          ELSE IF ~r.ok THEN HErr(h, r.err)
          ELSE HOk(loaded.h, loaded.val)

coerce_current_to_dict_for_write_body(h, current, write_options) ==
  IF HIsDict(h, current) THEN [h |-> h, val |-> current]
  ELSE IF ~write_options.overwrite_incompatible \/ ~write_options.create_missing
    THEN [h |-> h, val |-> current]
  ELSE Alloc(h, MapV(<<>>))

(* A faulty variant of compute_slice_indexes that does not count negative
   bounds from the end of the list: C12 fails with it. *)
compute_slice_indexes_unshifted(len, start, end) ==
  LET slice_start == ClampBound(IF start = <<>> \/ start[1] < 0 THEN 0 ELSE start[1], len)
      slice_end == ClampBound(IF end = <<>> THEN len ELSE IF end[1] < 0 THEN 0 ELSE end[1], len)
  IN IF slice_start >= slice_end THEN <<>>
     ELSE [j \in 1..(slice_end - slice_start) |-> slice_start + j - 1]

(* compute_slice_indexes: the zero-based indexes of the slice, ascending. *)
compute_slice_indexes_body(len, start, end) ==
  LET slice_start == ClampBound(IF start = <<>> THEN 0 ELSE start[1], len)
      slice_end == ClampBound(IF end = <<>> THEN len ELSE end[1], len)
  IN IF slice_start >= slice_end THEN <<>>
     ELSE [j \in 1..(slice_end - slice_start) |-> slice_start + j - 1]

(* A faulty variant of WriteListFor that makes the list of a missing key
   whatever create_missing says: C22 fails with it. *)
WriteListForMissingKey(h, dict, key, write_options) ==
  LET found == DictGet(h[dict.id], key)
      fresh == Alloc(h, ListV(<<>>))
  IN IF found # <<>> THEN
       (IF HIsList(h, found[1]) THEN [go |-> TRUE, h |-> h, val |-> found[1]]
        ELSE IF ~write_options.overwrite_incompatible THEN [go |-> FALSE]
        ELSE [go |-> TRUE, h |-> fresh.h, val |-> fresh.val])
     ELSE [go |-> TRUE, h |-> fresh.h, val |-> fresh.val]

(* The list a keyed write token works on: the list under key, or a fresh
   empty list when the key is missing (create_missing) or holds a non-list
   (overwrite_incompatible); go = FALSE when the token gives up. *)
WriteListFor_body(h, dict, key, write_options) ==
  LET found == DictGet(h[dict.id], key)
      fresh == Alloc(h, ListV(<<>>))
  IN IF found # <<>> THEN
       (IF HIsList(h, found[1]) THEN [go |-> TRUE, h |-> h, val |-> found[1]]
        ELSE IF ~write_options.overwrite_incompatible THEN [go |-> FALSE]
        ELSE [go |-> TRUE, h |-> fresh.h, val |-> fresh.val])
     ELSE IF ~write_options.create_missing THEN [go |-> FALSE]
     ELSE [go |-> TRUE, h |-> fresh.h, val |-> fresh.val]

----------------------------------------------------------------------------
(* The write walker (set) *)


(* The zero-based indexes 0 .. len-1. *)
AllIndexes(len) == [j \in 1..len |-> j - 1]

(* The terminal loop of the list tokens: each listed element is replaced
   by the resolved new value, in order; an error stops the loop. *)
SetItemsResolved_body(h, list, indexes, new_value, root_data) ==
  IF indexes = <<>> THEN HOk(h, list)
  ELSE LET idx == Head(indexes) IN
    IF idx >= Len(h[list.id].l) THEN HErr(h, "IndexError")
    ELSE LET r == resolve_new_value(h, <<h[list.id].l[idx + 1]>>, new_value, root_data)
         IN IF ~r.ok THEN r
            ELSE SetItemsResolved(HListSet(r.h, list.id, idx, r.val), list,
                                  Tail(indexes), new_value, root_data)

(* The non-terminal loop of the list tokens: the walk continues in each
   listed element.  With replace_scalars (Map, Slice) a scalar element is
   skipped or replaced by a fresh container first. *)
SetItemsRecurse_body(h, list, indexes, rest, new_value, write_options, root_data, replace_scalars) ==
  IF indexes = <<>> THEN HOk(h, list)
  ELSE LET idx == Head(indexes) IN
    IF idx >= Len(h[list.id].l) THEN HErr(h, "IndexError")
    ELSE LET found == h[list.id].l[idx + 1]
             scalar == replace_scalars /\ ~is_dict_or_list(h, found)
             item == IF scalar THEN new_write_container(h) ELSE [h |-> h, val |-> found]
             updated == set_recurse(item.h, item.val, rest, new_value, write_options, root_data)
         IN IF scalar /\ ~write_options.overwrite_incompatible
            THEN SetItemsRecurse(h, list, Tail(indexes), rest, new_value, write_options,
                                 root_data, replace_scalars)
            ELSE IF ~updated.ok THEN updated
            ELSE SetItemsRecurse(HListSet(updated.h, list.id, idx, updated.val), list,
                                 Tail(indexes), rest, new_value, write_options, root_data,
                                 replace_scalars)

(* A faulty variant of set_get_token that does not store the updated child
   back under its key: C1 fails with it. *)
set_get_token_detached(h, current0, remaining, key, new_value, write_options, root_data) ==
  LET c == coerce_current_to_dict_for_write(h, current0, write_options)
      current == c.val
      child_opt == DictGet(c.h[current.id], key)
      had_child == child_opt # <<>>
      child == IF had_child THEN [h |-> c.h, val |-> child_opt[1]] ELSE new_write_container(c.h)
      incompatible == had_child /\ ~is_dict_or_list(c.h, child_opt[1])
      target == IF incompatible THEN new_write_container(c.h) ELSE child
      resolved == resolve_new_value(c.h, child_opt, new_value, root_data)
      updated == set_recurse(target.h, target.val, Tail(remaining), new_value,
                             write_options, root_data)
  IN IF ~HIsDict(c.h, current) THEN HOk(c.h, current)
     ELSE IF Len(remaining) = 1 THEN
       (IF ~had_child /\ ~write_options.create_missing THEN HOk(c.h, current)
        ELSE IF ~resolved.ok THEN resolved
        ELSE HOk(HDictSet(resolved.h, current.id, key, resolved.val), current))
     ELSE IF ~had_child /\ ~write_options.create_missing THEN HOk(c.h, current)
     ELSE IF incompatible /\ ~write_options.overwrite_incompatible THEN HOk(c.h, current)
     ELSE IF ~updated.ok THEN updated
     ELSE HOk(updated.h, current)

(* A faulty variant of set_get_token that creates a missing child whatever
   create_missing is: C11 fails with it. *)
set_get_token_creates_always(h, current0, remaining, key, new_value, write_options, root_data) ==
  LET c == coerce_current_to_dict_for_write(h, current0, write_options)
      current == c.val
      child_opt == DictGet(c.h[current.id], key)
      had_child == child_opt # <<>>
      child == IF had_child THEN [h |-> c.h, val |-> child_opt[1]] ELSE new_write_container(c.h)
      incompatible == had_child /\ ~is_dict_or_list(c.h, child_opt[1])
      target == IF incompatible THEN new_write_container(c.h) ELSE child
      resolved == resolve_new_value(c.h, child_opt, new_value, root_data)
      updated == set_recurse(target.h, target.val, Tail(remaining), new_value,
                             write_options, root_data)
  IN IF ~HIsDict(c.h, current) THEN HOk(c.h, current)
     ELSE IF Len(remaining) = 1 THEN
       (IF ~resolved.ok THEN resolved
        ELSE HOk(HDictSet(resolved.h, current.id, key, resolved.val), current))
     ELSE IF incompatible /\ ~write_options.overwrite_incompatible THEN HOk(c.h, current)
     ELSE IF ~updated.ok THEN updated
     ELSE HOk(HDictSet(updated.h, current.id, key, updated.val), current)

set_get_token_body(h, current0, remaining, key, new_value, write_options, root_data) ==
  LET c == coerce_current_to_dict_for_write(h, current0, write_options)
      current == c.val
      child_opt == DictGet(c.h[current.id], key)
      had_child == child_opt # <<>>
      child == IF had_child THEN [h |-> c.h, val |-> child_opt[1]] ELSE new_write_container(c.h)
      incompatible == had_child /\ ~is_dict_or_list(c.h, child_opt[1])
      target == IF incompatible THEN new_write_container(c.h) ELSE child
      resolved == resolve_new_value(c.h, child_opt, new_value, root_data)
      updated == set_recurse(target.h, target.val, Tail(remaining), new_value,
                             write_options, root_data)
  IN IF ~HIsDict(c.h, current) THEN HOk(c.h, current)
     ELSE IF Len(remaining) = 1 THEN
       (IF ~had_child /\ ~write_options.create_missing THEN HOk(c.h, current)
        ELSE IF ~resolved.ok THEN resolved
        ELSE HOk(HDictSet(resolved.h, current.id, key, resolved.val), current))
     ELSE IF ~had_child /\ ~write_options.create_missing THEN HOk(c.h, current)
     ELSE IF incompatible /\ ~write_options.overwrite_incompatible THEN HOk(c.h, current)
     ELSE IF ~updated.ok THEN updated
     ELSE HOk(HDictSet(updated.h, current.id, key, updated.val), current)

set_map_token_body(h, current0, remaining, key, new_value, write_options, root_data) ==
  LET c == coerce_current_to_dict_for_write(h, current0, write_options)
      current == c.val
      w == WriteListFor(c.h, current, key, write_options)
      list == w.val
      seeded == IF w.h[list.id].l = <<>>
                THEN LET a == new_write_container(w.h) IN HListAppend(a.h, list.id, a.val)
                ELSE w.h
      done == IF Len(remaining) = 1
              THEN SetItemsResolved(w.h, list, AllIndexes(Len(w.h[list.id].l)),
                                    new_value, root_data)
              ELSE SetItemsRecurse(seeded, list, AllIndexes(Len(seeded[list.id].l)),
                                   Tail(remaining), new_value, write_options, root_data, TRUE)
  IN IF ~HIsDict(c.h, current) THEN HOk(c.h, current)
     ELSE IF ~w.go THEN HOk(c.h, current)
     ELSE IF Len(remaining) > 1 /\ w.h[list.id].l = <<>> /\ ~write_options.create_missing
       THEN HOk(w.h, current)
     ELSE IF ~done.ok THEN done
     ELSE HOk(HDictSet(done.h, current.id, key, list), current)

(* The children of a dict under "*", by the keys it had when the loop started. *)
SetDictChildren_body(h, dict, keys, remaining, new_value, write_options, root_data) ==
  IF keys = <<>> THEN HOk(h, dict)
  ELSE LET key == Head(keys)
           found == DictGet(h[dict.id], key)
           current_child == IF found = <<>> THEN Null ELSE found[1]
           updated == IF Len(remaining) = 1
                      THEN resolve_new_value(h, <<current_child>>, new_value, root_data)
                      ELSE set_recurse(h, current_child, Tail(remaining), new_value,
                                       write_options, root_data)
       IN IF ~updated.ok THEN updated
          ELSE SetDictChildren(HDictSet(updated.h, dict.id, key, updated.val), dict,
                               Tail(keys), remaining, new_value, write_options, root_data)

DictKeys(obj) == [j \in 1..Len(obj.m) |-> obj.m[j][1]]

set_wildcard_token_body(h, current, remaining, new_value, write_options, root_data) ==
  IF HIsDict(h, current) THEN
    LET done == SetDictChildren(h, current, DictKeys(h[current.id]), remaining, new_value,
                                write_options, root_data)
    IN IF ~done.ok THEN done ELSE HOk(done.h, current)
  ELSE IF HIsList(h, current) THEN
    LET done == IF Len(remaining) = 1
                THEN SetItemsResolved(h, current, AllIndexes(Len(h[current.id].l)),
                                      new_value, root_data)
                ELSE SetItemsRecurse(h, current, AllIndexes(Len(h[current.id].l)),
                                     Tail(remaining), new_value, write_options, root_data,
                                     FALSE)
    IN IF ~done.ok THEN done ELSE HOk(done.h, current)
  ELSE HOk(h, current)

(* A faulty variant of PadList that pads with None even before a further
   token: C16 fails with it. *)
PadListWithNone(h, list, idx, has_next) ==
  IF Len(h[list.id].l) > idx THEN h
  ELSE PadList(HListAppend(h, list.id, Null), list, idx, has_next)

(* The padding loop of set_index_token: the list grows until idx is in
   range, by fresh containers before a further token and by None at the end
   of the path. *)
PadList_body(h, list, idx, has_next) ==
  IF Len(h[list.id].l) > idx THEN h
  ELSE IF has_next
    THEN LET a == new_write_container(h)
         IN PadList(HListAppend(a.h, list.id, a.val), list, idx, has_next)
  ELSE PadList(HListAppend(h, list.id, Null), list, idx, has_next)

set_index_token_body(h, current0, remaining, key, index, new_value, write_options, root_data) ==
  LET c == coerce_current_to_dict_for_write(h, current0, write_options)
      current == c.val
      w == WriteListFor(c.h, current, key, write_options)
      list == w.val
      len0 == Len(w.h[list.id].l)
      padded == IF index < 0 THEN w.h ELSE PadList(w.h, list, index, Len(remaining) > 1)
      target_index == IF index < 0 THEN Len(padded[list.id].l) + index ELSE index
      found == padded[list.id].l[target_index + 1]
      resolved == resolve_new_value(padded, <<found>>, new_value, root_data)
      scalar == ~is_dict_or_list(padded, found)
      item == IF scalar THEN new_write_container(padded) ELSE [h |-> padded, val |-> found]
      updated == set_recurse(item.h, item.val, Tail(remaining), new_value, write_options,
                             root_data)
  IN IF ~HIsDict(c.h, current) THEN HOk(c.h, current)
     ELSE IF ~w.go THEN HOk(c.h, current)
     ELSE IF index < 0 /\ index < 0 - len0 THEN HOk(HDictSet(w.h, current.id, key, list), current)
     ELSE IF index >= 0 /\ ~write_options.create_missing
       THEN HOk(HDictSet(w.h, current.id, key, list), current)
     ELSE IF Len(remaining) = 1 THEN
       (IF ~resolved.ok THEN resolved
        ELSE HOk(HDictSet(HListSet(resolved.h, list.id, target_index, resolved.val),
                          current.id, key, list), current))
     ELSE IF scalar /\ ~write_options.overwrite_incompatible
       THEN HOk(HDictSet(padded, current.id, key, list), current)
     ELSE IF ~updated.ok THEN updated
     ELSE HOk(HDictSet(HListSet(updated.h, list.id, target_index, updated.val),
                       current.id, key, list), current)

set_slice_token_body(h, current0, remaining, key, start, end, new_value, write_options, root_data) ==
  LET c == coerce_current_to_dict_for_write(h, current0, write_options)
      current == c.val
      w == WriteListFor(c.h, current, key, write_options)
      list == w.val
      indexes == compute_slice_indexes(Len(w.h[list.id].l), start, end)
      done == IF Len(remaining) = 1
              THEN SetItemsResolved(w.h, list, indexes, new_value, root_data)
              ELSE SetItemsRecurse(w.h, list, indexes, Tail(remaining), new_value,
                                   write_options, root_data, TRUE)
  IN IF ~HIsDict(c.h, current) THEN HOk(c.h, current)
     ELSE IF ~w.go THEN HOk(c.h, current)
     ELSE IF ~done.ok THEN done
     ELSE HOk(HDictSet(done.h, current.id, key, list), current)

(* The zero-based indexes at which a mask holds TRUE. *)
RECURSIVE MaskIndexes(_, _)
MaskIndexes(mask, from) ==
  IF mask = <<>> THEN <<>>
  ELSE (IF Head(mask) THEN <<from>> ELSE <<>>) \o MaskIndexes(Tail(mask), from + 1)

(* A faulty variant of set_filter_token that creates the missing element
   whatever create_filter_match says: C10 fails with it. *)
set_filter_token_always_creates(h, current, remaining, list_key, field, operator, value, new_value, write_options, root_data) ==
  LET w == WriteListFor(h, current, list_key, write_options)
      list == w.val
      matcher == compile_filter_matcher(field, value)
      items == [j \in 1..Len(w.h[list.id].l) |-> Val(w.h, w.h[list.id].l[j])]
      matches == MatchMask(operator, matcher.val, items, <<Val(w.h, root_data)>>, <<>>)
      creates == /\ \A j \in 1..Len(matches.val) : ~matches.val[j]
                 /\ matcher.val.field_resolver.t = "Key"
                 /\ matcher.val.value_matcher.t = "Literal"
                 /\ operator = <<"=", "=">>
                 /\ write_options.create_missing
      new_item == Alloc(w.h, MapV(<<<<field, StrV(value)>>>>))
      grown == IF creates THEN HListAppend(new_item.h, list.id, new_item.val) ELSE w.h
      matched == MaskIndexes(IF creates THEN Append(matches.val, TRUE) ELSE matches.val, 0)
      done == IF Len(remaining) = 1
              THEN SetItemsResolved(grown, list, matched, new_value, root_data)
              ELSE SetItemsRecurse(grown, list, matched, Tail(remaining), new_value,
                                   write_options, root_data, FALSE)
  IN IF ~HIsDict(h, current) THEN HOk(h, current)
     ELSE IF ~w.go THEN HOk(h, current)
     ELSE IF ~matcher.ok THEN HErr(w.h, matcher.err)
     ELSE IF ~matches.ok THEN HErr(w.h, matches.err)
     ELSE IF ~done.ok THEN done
     ELSE HOk(HDictSet(done.h, current.id, list_key, list), current)

set_filter_token_body(h, current, remaining, list_key, field, operator, value, new_value, write_options, root_data) ==
  LET w == WriteListFor(h, current, list_key, write_options)
      list == w.val
      matcher == compile_filter_matcher(field, value)
      items == [j \in 1..Len(w.h[list.id].l) |-> Val(w.h, w.h[list.id].l[j])]
      matches == MatchMask(operator, matcher.val, items, <<Val(w.h, root_data)>>, <<>>)
      creates == /\ \A j \in 1..Len(matches.val) : ~matches.val[j]
                 /\ matcher.val.field_resolver.t = "Key"
                 /\ matcher.val.value_matcher.t = "Literal"
                 /\ operator = <<"=", "=">>
                 /\ write_options.create_missing
                 /\ write_options.create_filter_match
      new_item == Alloc(w.h, MapV(<<<<field, StrV(value)>>>>))
      grown == IF creates THEN HListAppend(new_item.h, list.id, new_item.val) ELSE w.h
      matched == MaskIndexes(IF creates THEN Append(matches.val, TRUE) ELSE matches.val, 0)
      done == IF Len(remaining) = 1
              THEN SetItemsResolved(grown, list, matched, new_value, root_data)
              ELSE SetItemsRecurse(grown, list, matched, Tail(remaining), new_value,
                                   write_options, root_data, FALSE)
  IN IF ~HIsDict(h, current) THEN HOk(h, current)
     ELSE IF ~w.go THEN HOk(h, current)
     ELSE IF ~matcher.ok THEN HErr(w.h, matcher.err)
     ELSE IF ~matches.ok THEN HErr(w.h, matches.err)
     ELSE IF ~done.ok THEN done
     ELSE HOk(HDictSet(done.h, current.id, list_key, list), current)

(* deep_set_walk over a dict, by the keys it had when the loop started. *)
DeepSetDictLoop_body(h, node, keys, remaining, new_value, write_options, root_data) ==
  IF keys = <<>> THEN HOk(h, node)
  ELSE LET key == Head(keys)
           found == DictGet(h[node.id], key)
           updated == set_recurse(h, found[1], Tail(remaining), new_value, write_options,
                                  root_data)
           h1 == IF Len(remaining) > 1 THEN HDictSet(updated.h, node.id, key, updated.val)
                 ELSE h
           next_child == DictGet(h1[node.id], key)
           walked == IF next_child # <<>> /\ is_dict_or_list(h1, next_child[1])
                     THEN deep_set_walk(h1, next_child[1], remaining, new_value,
                                        write_options, root_data)
                     ELSE HOk(h1, node)
       IN IF found = <<>>
          THEN DeepSetDictLoop(h, node, Tail(keys), remaining, new_value, write_options,
                               root_data)
          ELSE IF Len(remaining) > 1 /\ ~updated.ok THEN updated
          ELSE IF ~walked.ok THEN walked
          ELSE DeepSetDictLoop(walked.h, node, Tail(keys), remaining, new_value,
                               write_options, root_data)

(* deep_set_walk over a list, by the length it had when the loop started. *)
DeepSetListLoop_body(h, node, indexes, remaining, new_value, write_options, root_data) ==
  IF indexes = <<>> THEN HOk(h, node)
  ELSE LET idx == Head(indexes)
           updated == set_recurse(h, h[node.id].l[idx + 1], Tail(remaining), new_value,
                                  write_options, root_data)
           h1 == IF Len(remaining) > 1 THEN HListSet(updated.h, node.id, idx, updated.val)
                 ELSE h
           next_child == h1[node.id].l[idx + 1]
           walked == IF is_dict_or_list(h1, next_child)
                     THEN deep_set_walk(h1, next_child, remaining, new_value, write_options,
                                        root_data)
                     ELSE HOk(h1, node)
       IN IF idx >= Len(h[node.id].l) THEN HErr(h, "IndexError")
          ELSE IF Len(remaining) > 1 /\ ~updated.ok THEN updated
          ELSE IF ~walked.ok THEN walked
          ELSE DeepSetListLoop(walked.h, node, Tail(indexes), remaining, new_value,
                               write_options, root_data)

deep_set_walk_body(h, node, remaining, new_value, write_options, root_data) ==
  IF HIsDict(h, node)
  THEN DeepSetDictLoop(h, node, DictKeys(h[node.id]), remaining, new_value, write_options,
                       root_data)
  ELSE IF HIsList(h, node)
  THEN DeepSetListLoop(h, node, AllIndexes(Len(h[node.id].l)), remaining, new_value,
                       write_options, root_data)
  ELSE HOk(h, node)

set_deep_wildcard_token_body(h, current, remaining, new_value, write_options, root_data) ==
  LET apply_options == [create_missing |-> FALSE,
                        create_filter_match |-> write_options.create_filter_match,
                        overwrite_incompatible |-> write_options.overwrite_incompatible]
      walked == deep_set_walk(h, current, remaining, new_value, apply_options, root_data)
  IN IF ~is_dict_or_list(h, current) THEN HOk(h, current)
     ELSE IF ~walked.ok THEN walked
     ELSE HOk(walked.h, current)

set_recurse_body(h, current, remaining, new_value, write_options, root_data) ==
  IF remaining = <<>> THEN HOk(h, new_value)
  ELSE LET kind == Head(remaining).kind IN
    CASE kind.kind = "Get" ->
           set_get_token(h, current, remaining, kind.key, new_value, write_options, root_data)
      [] kind.kind = "Map" ->
           set_map_token(h, current, remaining, kind.key, new_value, write_options, root_data)
      [] kind.kind = "Wildcard" ->
           set_wildcard_token(h, current, remaining, new_value, write_options, root_data)
      [] kind.kind = "DeepWildcard" ->
           set_deep_wildcard_token(h, current, remaining, new_value, write_options, root_data)
      [] kind.kind = "Index" ->
           set_index_token(h, current, remaining, kind.key, kind.index, new_value,
                           write_options, root_data)
      [] kind.kind = "Slice" ->
           set_slice_token(h, current, remaining, kind.key, kind.start, kind.end, new_value,
                           write_options, root_data)
      [] kind.kind = "Filter" ->
           set_filter_token(h, current, remaining, kind.list_key, kind.field, kind.operator,
                            kind.value, new_value, write_options, root_data)
      [] kind.kind = "Root" -> HOk(h, current)

(* RustDictWalk::set.  The result is [outcome, tree]: Ok(None-placeholder)
   or the error raised, and the caller's tree after the call (set returns
   the object it was given). *)
set_body(data_in, path, value, strict, create_missing, create_filter_match, overwrite_incompatible) ==
  LET parsed == parse_path(path)
      tokens == parsed.val
      ensured == ensure_path_resolves(data_in, tokens, Len(tokens) - 1)
      write_options == [create_missing |-> create_missing,
                        create_filter_match |-> create_filter_match,
                        overwrite_incompatible |-> overwrite_incompatible]
      root == Load(<<>>, data_in)
      val == Load(root.h, value)
      done == set_recurse(val.h, root.val, tokens, val.val, write_options, root.val)
  IN IF ~parsed.ok THEN [outcome |-> parsed, tree |-> data_in]
     ELSE IF path_uses_root_token(tokens) THEN [outcome |-> Err("ParseError"), tree |-> data_in]
     ELSE IF strict /\ tokens # <<>> /\ ~ensured.ok THEN [outcome |-> ensured, tree |-> data_in]
     ELSE [outcome |-> IF done.ok THEN Ok(Null) ELSE Err(done.err),
           tree |-> Val(done.h, root.val)]

----------------------------------------------------------------------------
(* The unset walker *)


(* The list under key when it is a list: an Option of its cell. *)
UnsetListFor_body(h, dict, key) ==
  LET found == DictGet(h[dict.id], key)
  IN IF found # <<>> /\ HIsList(h, found[1]) THEN found ELSE <<>>

(* The non-terminal loop of the list tokens: the walk continues in each
   listed element and the element is stored back. *)
UnsetItemsRecurse_body(h, list, indexes, rest) ==
  IF indexes = <<>> THEN HOk(h, list)
  ELSE LET idx == Head(indexes)
           updated == unset_recurse(h, h[list.id].l[idx + 1], rest)
       IN IF idx >= Len(h[list.id].l) THEN HErr(h, "IndexError")
          ELSE IF ~updated.ok THEN updated
          ELSE UnsetItemsRecurse(HListSet(updated.h, list.id, idx, updated.val), list,
                                 Tail(indexes), rest)

unset_get_token_body(h, current, remaining, key) ==
  LET child == DictGet(h[current.id], key)
      updated == unset_recurse(h, child[1], Tail(remaining))
  IN IF ~HIsDict(h, current) THEN HOk(h, current)
     ELSE IF Len(remaining) = 1 THEN
       (IF DictHas(h[current.id], key) THEN HOk(HDictDel(h, current.id, key), current)
        ELSE HOk(h, current))
     ELSE IF child = <<>> THEN HOk(h, current)
     ELSE IF ~updated.ok THEN updated
     ELSE HOk(HDictSet(updated.h, current.id, key, updated.val), current)

unset_map_token_body(h, current, remaining, key) ==
  LET list_obj == UnsetListFor(h, current, key)
      list == list_obj[1]
      fresh == Alloc(h, ListV(<<>>))
      done == UnsetItemsRecurse(h, list, AllIndexes(Len(h[list.id].l)), Tail(remaining))
  IN IF ~HIsDict(h, current) THEN HOk(h, current)
     ELSE IF list_obj = <<>> THEN HOk(h, current)
     ELSE IF Len(remaining) = 1 THEN HOk(HDictSet(fresh.h, current.id, key, fresh.val), current)
     ELSE IF ~done.ok THEN done
     ELSE HOk(HDictSet(done.h, current.id, key, list), current)

(* The children of a dict under "*", by the keys it had when the loop started. *)
UnsetDictChildren_body(h, dict, keys, rest) ==
  IF keys = <<>> THEN HOk(h, dict)
  ELSE LET key == Head(keys)
           child == DictGet(h[dict.id], key)
           updated == unset_recurse(h, child[1], rest)
       IN IF child = <<>> THEN UnsetDictChildren(h, dict, Tail(keys), rest)
          ELSE IF ~updated.ok THEN updated
          ELSE UnsetDictChildren(HDictSet(updated.h, dict.id, key, updated.val), dict,
                                 Tail(keys), rest)

unset_wildcard_token_body(h, current, remaining) ==
  IF HIsDict(h, current) THEN
    (IF Len(remaining) = 1 THEN HOk([h EXCEPT ![current.id] = MapV(<<>>)], current)
     ELSE LET done == UnsetDictChildren(h, current, DictKeys(h[current.id]), Tail(remaining))
          IN IF ~done.ok THEN done ELSE HOk(done.h, current))
  ELSE IF HIsList(h, current) THEN
    (IF Len(remaining) = 1 THEN HOk([h EXCEPT ![current.id] = ListV(<<>>)], current)
     ELSE LET done == UnsetItemsRecurse(h, current, AllIndexes(Len(h[current.id].l)),
                                        Tail(remaining))
          IN IF ~done.ok THEN done ELSE HOk(done.h, current))
  ELSE HOk(h, current)

(* deep_unset_walk over a dict, by the keys it had when the loop started. *)
DeepUnsetDictLoop_body(h, node, keys, remaining) ==
  IF keys = <<>> THEN HOk(h, node)
  ELSE LET key == Head(keys)
           found == DictGet(h[node.id], key)
           updated == unset_recurse(h, found[1], Tail(remaining))
           h1 == IF Len(remaining) > 1 THEN HDictSet(updated.h, node.id, key, updated.val)
                 ELSE h
           next_child == DictGet(h1[node.id], key)
           walked == IF next_child # <<>> /\ is_dict_or_list(h1, next_child[1])
                     THEN deep_unset_walk(h1, next_child[1], remaining)
                     ELSE HOk(h1, node)
       IN IF found = <<>> THEN DeepUnsetDictLoop(h, node, Tail(keys), remaining)
          ELSE IF Len(remaining) > 1 /\ ~updated.ok THEN updated
          ELSE IF ~walked.ok THEN walked
          ELSE DeepUnsetDictLoop(walked.h, node, Tail(keys), remaining)

(* deep_unset_walk over a list, by the length it had when the loop started. *)
DeepUnsetListLoop_body(h, node, indexes, remaining) ==
  IF indexes = <<>> THEN HOk(h, node)
  ELSE LET idx == Head(indexes)
           updated == unset_recurse(h, h[node.id].l[idx + 1], Tail(remaining))
           h1 == IF Len(remaining) > 1 THEN HListSet(updated.h, node.id, idx, updated.val)
                 ELSE h
           next_child == h1[node.id].l[idx + 1]
           walked == IF is_dict_or_list(h1, next_child)
                     THEN deep_unset_walk(h1, next_child, remaining)
                     ELSE HOk(h1, node)
       IN IF idx >= Len(h[node.id].l) THEN HErr(h, "IndexError")
          ELSE IF Len(remaining) > 1 /\ ~updated.ok THEN updated
          ELSE IF ~walked.ok THEN walked
          ELSE DeepUnsetListLoop(walked.h, node, Tail(indexes), remaining)

deep_unset_walk_body(h, node, remaining) ==
  IF HIsDict(h, node) THEN DeepUnsetDictLoop(h, node, DictKeys(h[node.id]), remaining)
  ELSE IF HIsList(h, node)
    THEN DeepUnsetListLoop(h, node, AllIndexes(Len(h[node.id].l)), remaining)
  ELSE HOk(h, node)

unset_deep_wildcard_token_body(h, current, remaining) ==
  LET walked == deep_unset_walk(h, current, remaining)
  IN IF ~is_dict_or_list(h, current) THEN HOk(h, current)
     ELSE IF ~walked.ok THEN walked
     ELSE HOk(walked.h, current)

(* list.pop(i) for each listed index, last index first. *)
PopDescending_body(items, indexes) ==
  IF indexes = <<>> THEN items
  ELSE PopDescending(ListPop(items, indexes[Len(indexes)]),
                     SubSeq(indexes, 1, Len(indexes) - 1))

unset_index_token_body(h, current, remaining, key, index) ==
  LET list_obj == UnsetListFor(h, current, key)
      list == list_obj[1]
      len == Len(h[list.id].l)
      in_bounds == index >= 0 - len /\ index < len
      target_index == IF index < 0 THEN len + index ELSE index
      popped == [h EXCEPT ![list.id] = ListV(ListPop(h[list.id].l, target_index))]
      updated == unset_recurse(h, h[list.id].l[target_index + 1], Tail(remaining))
  IN IF ~HIsDict(h, current) THEN HOk(h, current)
     ELSE IF list_obj = <<>> THEN HOk(h, current)
     ELSE IF Len(remaining) = 1 THEN
       HOk(HDictSet(IF in_bounds THEN popped ELSE h, current.id, key, list), current)
     ELSE IF ~in_bounds THEN HOk(HDictSet(h, current.id, key, list), current)
     ELSE IF ~updated.ok THEN updated
     ELSE HOk(HDictSet(HListSet(updated.h, list.id, target_index, updated.val),
                       current.id, key, list), current)

unset_slice_token_body(h, current, remaining, key, start, end) ==
  LET list_obj == UnsetListFor(h, current, key)
      list == list_obj[1]
      indexes == compute_slice_indexes(Len(h[list.id].l), start, end)
      popped == [h EXCEPT ![list.id] = ListV(PopDescending(h[list.id].l, indexes))]
      done == UnsetItemsRecurse(h, list, indexes, Tail(remaining))
  IN IF ~HIsDict(h, current) THEN HOk(h, current)
     ELSE IF list_obj = <<>> THEN HOk(h, current)
     ELSE IF Len(remaining) = 1 THEN HOk(HDictSet(popped, current.id, key, list), current)
     ELSE IF ~done.ok THEN done
     ELSE HOk(HDictSet(done.h, current.id, key, list), current)

(* The non-terminal loop of unset_filter_token: each element is tested
   (without a root) when its turn comes, and the walk continues in the
   elements that match. *)
UnsetMatchingRecurse_body(h, list, indexes, operator, matcher, rest) ==
  IF indexes = <<>> THEN HOk(h, list)
  ELSE LET idx == Head(indexes)
           child == h[list.id].l[idx + 1]
           matched == filter_matches_compiled(operator, matcher, Val(h, child), <<>>)
           updated == unset_recurse(h, child, rest)
       IN IF idx >= Len(h[list.id].l) THEN HErr(h, "IndexError")
          ELSE IF ~matched.ok THEN HErr(h, matched.err)
          ELSE IF ~matched.val
            THEN UnsetMatchingRecurse(h, list, Tail(indexes), operator, matcher, rest)
          ELSE IF ~updated.ok THEN updated
          ELSE UnsetMatchingRecurse(HListSet(updated.h, list.id, idx, updated.val), list,
                                    Tail(indexes), operator, matcher, rest)

(* A faulty variant of unset_filter_token whose terminal case removes the
   first matching element only: C3 fails with it. *)
unset_filter_token_first(h, current, remaining, list_key, field, operator, value) ==
  LET list_obj == UnsetListFor(h, current, list_key)
      list == list_obj[1]
      matcher == compile_filter_matcher(field, value)
      cells == h[list.id].l
      items == [j \in 1..Len(cells) |-> Val(h, cells[j])]
      matches == MatchMask(operator, matcher.val, items, <<>>, <<>>)
      first == [j \in 1..Len(cells) |->
                  matches.val[j] /\ \A i \in 1..(j - 1) : ~matches.val[i]]
      filtered == Alloc(h, ListV(SelectByMask(cells, [j \in 1..Len(cells) |-> ~first[j]])))
      done == UnsetMatchingRecurse(h, list, AllIndexes(Len(cells)), operator, matcher.val,
                                   Tail(remaining))
  IN IF ~HIsDict(h, current) THEN HOk(h, current)
     ELSE IF list_obj = <<>> THEN HOk(h, current)
     ELSE IF ~matcher.ok THEN HErr(h, matcher.err)
     ELSE IF Len(remaining) = 1 THEN
       (IF ~matches.ok THEN HErr(h, matches.err)
        ELSE HOk(HDictSet(filtered.h, current.id, list_key, filtered.val), current))
     ELSE IF ~done.ok THEN done
     ELSE HOk(HDictSet(done.h, current.id, list_key, list), current)

unset_filter_token_body(h, current, remaining, list_key, field, operator, value) ==
  LET list_obj == UnsetListFor(h, current, list_key)
      list == list_obj[1]
      matcher == compile_filter_matcher(field, value)
      cells == h[list.id].l
      items == [j \in 1..Len(cells) |-> Val(h, cells[j])]
      matches == MatchMask(operator, matcher.val, items, <<>>, <<>>)
      filtered == Alloc(h, ListV(SelectByMask(cells, [j \in 1..Len(cells) |-> ~matches.val[j]])))
      done == UnsetMatchingRecurse(h, list, AllIndexes(Len(cells)), operator, matcher.val,
                                   Tail(remaining))
  IN IF ~HIsDict(h, current) THEN HOk(h, current)
     ELSE IF list_obj = <<>> THEN HOk(h, current)
     ELSE IF ~matcher.ok THEN HErr(h, matcher.err)
     ELSE IF Len(remaining) = 1 THEN
       (IF ~matches.ok THEN HErr(h, matches.err)
        ELSE HOk(HDictSet(filtered.h, current.id, list_key, filtered.val), current))
     ELSE IF ~done.ok THEN done
     ELSE HOk(HDictSet(done.h, current.id, list_key, list), current)

unset_recurse_body(h, current, remaining) ==
  IF remaining = <<>> THEN HOk(h, current)
  ELSE LET kind == Head(remaining).kind IN
    CASE kind.kind = "Get" -> unset_get_token(h, current, remaining, kind.key)
      [] kind.kind = "Map" -> unset_map_token(h, current, remaining, kind.key)
      [] kind.kind = "Wildcard" -> unset_wildcard_token(h, current, remaining)
      [] kind.kind = "DeepWildcard" -> unset_deep_wildcard_token(h, current, remaining)
      [] kind.kind = "Index" -> unset_index_token(h, current, remaining, kind.key, kind.index)
      [] kind.kind = "Slice" ->
           unset_slice_token(h, current, remaining, kind.key, kind.start, kind.end)
      [] kind.kind = "Filter" ->
           unset_filter_token(h, current, remaining, kind.list_key, kind.field,
                              kind.operator, kind.value)
      [] kind.kind = "Root" -> HOk(h, current)

(* RustDictWalk::unset: [outcome, tree] as for set. *)
unset_body(data_in, path, strict) ==
  LET parsed == parse_path(path)
      tokens == parsed.val
      ensured == ensure_path_resolves(data_in, tokens, Len(tokens))
      root == Load(<<>>, data_in)
      done == unset_recurse(root.h, root.val, tokens)
  IN IF ~parsed.ok THEN [outcome |-> parsed, tree |-> data_in]
     ELSE IF path_uses_root_token(tokens) THEN [outcome |-> Err("ParseError"), tree |-> data_in]
     ELSE IF strict /\ tokens # <<>> /\ ~ensured.ok THEN [outcome |-> ensured, tree |-> data_in]
     ELSE [outcome |-> IF done.ok THEN Ok(Null) ELSE Err(done.err),
           tree |-> Val(done.h, root.val)]

----------------------------------------------------------------------------
(* The set through "**", one deep_set_walk frame at a time *)

(* No set is in progress. *)
NoWalk == [active |-> FALSE, h |-> <<>>, stack |-> <<>>, remaining |-> <<>>,
           new_value |-> Null, write_options |-> [create_missing |-> TRUE,
           create_filter_match |-> TRUE, overwrite_incompatible |-> TRUE], root_data |-> Null]

(* A frame of deep_set_walk: the container it walks and the keys, or the
   indexes, it took from the container on entry and has not visited yet. *)
DeepSetFrame(h, node) ==
  [node |-> node,
   todo |-> IF HIsDict(h, node) THEN DictKeys(h[node.id])
            ELSE AllIndexes(Len(h[node.id].l))]

(* RustDictWalk::set with the default options on a path that begins with
   "**", up to the first call of deep_set_walk by set_deep_wildcard_token,
   which walks without create_missing. *)
deep_set_enter_body(data_in, path, value) ==
  LET root == Load(<<>>, data_in)
      val == Load(root.h, value)
  IN IF ~is_dict_or_list(val.h, root.val) THEN NoWalk
     ELSE [active |-> TRUE, h |-> val.h,
           stack |-> <<DeepSetFrame(val.h, root.val)>>,
           remaining |-> parse_path(path).val,
           new_value |-> val.val,
           write_options |-> [create_missing |-> FALSE, create_filter_match |-> TRUE,
                              overwrite_incompatible |-> TRUE],
           root_data |-> root.val]

(* One turn of the loop of the innermost deep_set_walk: the rest of the path
   is set in the next child, the child is stored back, and a child that is
   then a mapping or a list gets a frame of its own. *)
deep_set_visit_body(w) ==
  LET top == w.stack[Len(w.stack)]
      node == top.node
      key == Head(top.todo)
      isdict == HIsDict(w.h, node)
      found == IF isdict THEN DictGet(w.h[node.id], key)
               ELSE IF key < Len(w.h[node.id].l) THEN <<w.h[node.id].l[key + 1]>>
               ELSE <<>>
      updated == set_recurse(w.h, found[1], Tail(w.remaining), w.new_value,
                             w.write_options, w.root_data)
      h1 == IF Len(w.remaining) <= 1 THEN w.h
            ELSE IF isdict THEN HDictSet(updated.h, node.id, key, updated.val)
            ELSE HListSet(updated.h, node.id, key, updated.val)
      next_child == IF isdict THEN DictGet(h1[node.id], key)[1] ELSE h1[node.id].l[key + 1]
      rest == [w.stack EXCEPT ![Len(w.stack)].todo = Tail(top.todo)]
  IN IF found = <<>> /\ isdict THEN HOk(w.h, [w EXCEPT !.stack = rest])
     ELSE IF found = <<>> THEN HErr(w.h, "IndexError")
     ELSE IF Len(w.remaining) > 1 /\ ~updated.ok THEN updated
     ELSE HOk(h1, [w EXCEPT !.h = h1,
                            !.stack = IF is_dict_or_list(h1, next_child)
                                      THEN Append(rest, DeepSetFrame(h1, next_child))
                                      ELSE rest])

----------------------------------------------------------------------------
(* run_filter_function *)

(* A faulty variant of run_filter_function that hands the value back when
   the expression does not compile, as the output transform of get does:
   C29 fails with it. *)
run_filter_function_lenient(path_filter, value) ==
  LET pipeline == compile_builtin_pipeline(path_filter.s, <<>>)
  IN IF IsStr(path_filter) /\ pipeline # <<>>
     THEN apply_builtin_pipeline(value, pipeline[1])
     ELSE Ok(value)

(* RustDictWalk::run_filter_function: the pipeline of the expression applied
   to the value, or a parse error when path_filter is no text or does not
   compile. *)
run_filter_function_body(path_filter, value) ==
  LET pipeline == compile_builtin_pipeline(path_filter.s, <<>>)
  IN IF IsStr(path_filter) /\ pipeline # <<>>
     THEN apply_builtin_pipeline(value, pipeline[1])
     ELSE Err("ParseError")

(* Call: the body of the operation of that name, applied to its arguments. *)
Call(name, args) ==
  CASE name = "SplitRawFrom" -> SplitRawFrom_body(args[1], args[2], args[3], args[4], args[5])
    [] name = "split_raw_path_tokens" -> split_raw_path_tokens_body(args[1])
    [] name = "SplitTransformFrom" -> SplitTransformFrom_body(args[1], args[2], args[3])
    [] name = "split_path_and_transform" -> split_path_and_transform_body(args[1])
    [] name = "IndexReMatch" -> IndexReMatch_body(args[1])
    [] name = "SliceReMatch" -> SliceReMatch_body(args[1])
    [] name = "FilterBodyCandidates" -> FilterBodyCandidates_body(args[1])
    [] name = "FilterBodyMatch" -> FilterBodyMatch_body(args[1])
    [] name = "FilterReMatch" -> FilterReMatch_body(args[1])
    [] name = "parse_token" -> parse_token_body(args[1])
    [] name = "compare_values" -> compare_values_body(args[1], args[2], args[3])
    [] name = "parse_literal" -> parse_literal_body(args[1])
    [] name = "SplitArgsFrom" -> SplitArgsFrom_body(args[1], args[2], args[3])
    [] name = "split_filter_args" -> split_filter_args_body(args[1])
    [] name = "resolve_root_reference_value" -> resolve_root_reference_value_body(args[1], args[2])
    [] name = "ParseArgTokens" -> ParseArgTokens_body(args[1], args[2])
    [] name = "parse_filter_args" -> parse_filter_args_body(args[1], args[2])
    [] name = "compile_builtin_filter" -> compile_builtin_filter_body(args[1], args[2])
    [] name = "PathFilterSegmentMatch" -> PathFilterSegmentMatch_body(args[1])
    [] name = "SplitOn" -> SplitOn_body(args[1], args[2])
    [] name = "CompileSegments" -> CompileSegments_body(args[1], args[2])
    [] name = "compile_builtin_pipeline" -> compile_builtin_pipeline_body(args[1], args[2])
    [] name = "compare_with_fallback" -> compare_with_fallback_body(args[1], args[2], args[3])
    [] name = "apply_inc" -> apply_inc_body(args[1])
    [] name = "apply_builtin_filter" -> apply_builtin_filter_body(args[1], args[2])
    [] name = "ApplySteps" -> ApplySteps_body(args[1], args[2])
    [] name = "MapSteps" -> MapSteps_body(args[1], args[2], args[3])
    [] name = "ApplyPipelineFrom" -> ApplyPipelineFrom_body(args[1], args[2], args[3])
    [] name = "apply_builtin_pipeline" -> apply_builtin_pipeline_body(args[1], args[2])
    [] name = "OperandEnd" -> OperandEnd_body(args[1], args[2], args[3])
    [] name = "TokenizeFrom" -> TokenizeFrom_body(args[1], args[2], args[3])
    [] name = "tokenize_boolean_filter_expression" -> tokenize_boolean_filter_expression_body(args[1])
    [] name = "parse_primary" -> parse_primary_body(args[1], args[2])
    [] name = "parse_not" -> parse_not_body(args[1], args[2])
    [] name = "ParseAndLoop" -> ParseAndLoop_body(args[1], args[2])
    [] name = "parse_and" -> parse_and_body(args[1], args[2])
    [] name = "ParseOrLoop" -> ParseOrLoop_body(args[1], args[2])
    [] name = "parse_or" -> parse_or_body(args[1], args[2])
    [] name = "parse" -> parse_body(args[1])
    [] name = "compile_builtin_or_boolean_predicate" -> compile_builtin_or_boolean_predicate_body(args[1])
    [] name = "eval_predicate_expr" -> eval_predicate_expr_body(args[1], args[2])
    [] name = "resolve_predicate_filter" -> resolve_predicate_filter_body(args[1])
    [] name = "validate_filter_token" -> validate_filter_token_body(args[1], args[2], args[3], args[4])
    [] name = "ParseTokens" -> ParseTokens_body(args[1], args[2])
    [] name = "parse_path" -> parse_path_body(args[1])
    [] name = "ProjectKey" -> ProjectKey_body(args[1], args[2])
    [] name = "resolve_get_token" -> resolve_get_token_body(args[1], args[2])
    [] name = "resolve_map_token" -> resolve_map_token_body(args[1], args[2])
    [] name = "iter_child_nodes" -> iter_child_nodes_body(args[1])
    [] name = "resolve_wildcard_token" -> resolve_wildcard_token_body(args[1])
    [] name = "DescendantsOfAll" -> DescendantsOfAll_body(args[1])
    [] name = "collect_descendants" -> collect_descendants_body(args[1])
    [] name = "resolve_deep_wildcard_token" -> resolve_deep_wildcard_token_body(args[1])
    [] name = "resolve_index_token" -> resolve_index_token_body(args[1], args[2], args[3])
    [] name = "resolve_slice_token" -> resolve_slice_token_body(args[1], args[2], args[3], args[4])
    [] name = "compile_filter_matcher" -> compile_filter_matcher_body(args[1], args[2])
    [] name = "resolve_filter_field_value_compiled" -> resolve_filter_field_value_compiled_body(args[1], args[2])
    [] name = "OrderedLiteralMatch" -> OrderedLiteralMatch_body(args[1], args[2], args[3], args[4])
    [] name = "filter_matches_compiled" -> filter_matches_compiled_body(args[1], args[2], args[3], args[4])
    [] name = "MatchMask" -> MatchMask_body(args[1], args[2], args[3], args[4], args[5])
    [] name = "resolve_filter_token" -> resolve_filter_token_body(args[1], args[2], args[3], args[4], args[5], args[6])
    [] name = "resolve_token" -> resolve_token_body(args[1], args[2], args[3])
    [] name = "apply_output_transform" -> apply_output_transform_body(args[1], args[2], args[3])
    [] name = "WalkTokens" -> WalkTokens_body(args[1], args[2], args[3])
    [] name = "get" -> get_body(args[1], args[2], args[3], args[4])
    [] name = "exists" -> exists_body(args[1], args[2], args[3])
    [] name = "ensure_path_resolves" -> ensure_path_resolves_body(args[1], args[2], args[3])
    [] name = "resolve_new_value" -> resolve_new_value_body(args[1], args[2], args[3], args[4])
    [] name = "coerce_current_to_dict_for_write" -> coerce_current_to_dict_for_write_body(args[1], args[2], args[3])
    [] name = "compute_slice_indexes" -> compute_slice_indexes_body(args[1], args[2], args[3])
    [] name = "WriteListFor" -> WriteListFor_body(args[1], args[2], args[3], args[4])
    [] name = "SetItemsResolved" -> SetItemsResolved_body(args[1], args[2], args[3], args[4], args[5])
    [] name = "SetItemsRecurse" -> SetItemsRecurse_body(args[1], args[2], args[3], args[4], args[5], args[6], args[7], args[8])
    [] name = "set_get_token" -> set_get_token_body(args[1], args[2], args[3], args[4], args[5], args[6], args[7])
    [] name = "set_map_token" -> set_map_token_body(args[1], args[2], args[3], args[4], args[5], args[6], args[7])
    [] name = "SetDictChildren" -> SetDictChildren_body(args[1], args[2], args[3], args[4], args[5], args[6], args[7])
    [] name = "set_wildcard_token" -> set_wildcard_token_body(args[1], args[2], args[3], args[4], args[5], args[6])
    [] name = "PadList" -> PadList_body(args[1], args[2], args[3], args[4])
    [] name = "set_index_token" -> set_index_token_body(args[1], args[2], args[3], args[4], args[5], args[6], args[7], args[8])
    [] name = "set_slice_token" -> set_slice_token_body(args[1], args[2], args[3], args[4], args[5], args[6], args[7], args[8], args[9])
    [] name = "set_filter_token" -> set_filter_token_body(args[1], args[2], args[3], args[4], args[5], args[6], args[7], args[8], args[9], args[10])
    [] name = "DeepSetDictLoop" -> DeepSetDictLoop_body(args[1], args[2], args[3], args[4], args[5], args[6], args[7])
    [] name = "DeepSetListLoop" -> DeepSetListLoop_body(args[1], args[2], args[3], args[4], args[5], args[6], args[7])
    [] name = "deep_set_enter" -> deep_set_enter_body(args[1], args[2], args[3])
    [] name = "deep_set_visit" -> deep_set_visit_body(args[1])
    [] name = "deep_set_walk" -> deep_set_walk_body(args[1], args[2], args[3], args[4], args[5], args[6])
    [] name = "set_deep_wildcard_token" -> set_deep_wildcard_token_body(args[1], args[2], args[3], args[4], args[5], args[6])
    [] name = "set_recurse" -> set_recurse_body(args[1], args[2], args[3], args[4], args[5], args[6])
    [] name = "set" -> set_body(args[1], args[2], args[3], args[4], args[5], args[6], args[7])
    [] name = "UnsetListFor" -> UnsetListFor_body(args[1], args[2], args[3])
    [] name = "UnsetItemsRecurse" -> UnsetItemsRecurse_body(args[1], args[2], args[3], args[4])
    [] name = "unset_get_token" -> unset_get_token_body(args[1], args[2], args[3], args[4])
    [] name = "unset_map_token" -> unset_map_token_body(args[1], args[2], args[3], args[4])
    [] name = "UnsetDictChildren" -> UnsetDictChildren_body(args[1], args[2], args[3], args[4])
    [] name = "unset_wildcard_token" -> unset_wildcard_token_body(args[1], args[2], args[3])
    [] name = "DeepUnsetDictLoop" -> DeepUnsetDictLoop_body(args[1], args[2], args[3], args[4])
    [] name = "DeepUnsetListLoop" -> DeepUnsetListLoop_body(args[1], args[2], args[3], args[4])
    [] name = "deep_unset_walk" -> deep_unset_walk_body(args[1], args[2], args[3])
    [] name = "unset_deep_wildcard_token" -> unset_deep_wildcard_token_body(args[1], args[2], args[3])
    [] name = "PopDescending" -> PopDescending_body(args[1], args[2])
    [] name = "unset_index_token" -> unset_index_token_body(args[1], args[2], args[3], args[4], args[5])
    [] name = "unset_slice_token" -> unset_slice_token_body(args[1], args[2], args[3], args[4], args[5], args[6])
    [] name = "UnsetMatchingRecurse" -> UnsetMatchingRecurse_body(args[1], args[2], args[3], args[4], args[5], args[6])
    [] name = "unset_filter_token" -> unset_filter_token_body(args[1], args[2], args[3], args[4], args[5], args[6], args[7])
    [] name = "unset_recurse" -> unset_recurse_body(args[1], args[2], args[3])
    [] name = "unset" -> unset_body(args[1], args[2], args[3])
    [] name = "run_filter_function" -> run_filter_function_body(args[1], args[2])

----------------------------------------------------------------------------
(* The callers' inputs: trees, paths, new values, defaults and options *)

TreeMapOfList == MapV(<<<<<<"a">>, MapV(<<<<<<"b">>, ListV(<<MapV(<<<<<<"c">>, IntV(1)>>>>), MapV(<<<<<<"c">>, IntV(2)>>>>)>>)>>>>)>>>>)
TreeNested == MapV(<<<<<<"a">>, MapV(<<<<<<"b">>, MapV(<<<<<<"a">>, IntV(42)>>>>)>>>>)>>>>)
TreeFilter == MapV(<<<<<<"x", "s">>, ListV(<<MapV(<<<<<<"k">>, IntV(1)>>>>)>>)>>>>)
TreeNumbers == MapV(<<<<<<"x", "s">>, ListV(<<IntV(1), IntV(2), IntV(3)>>)>>, <<<<"n">>, IntV(2)>>>>)
TreeScalars == MapV(<<<<<<"a">>, IntV(1)>>, <<<<"s">>, StrV(<<"x">>)>>>>)
TreeDeepLists == MapV(<<<<<<"r">>, MapV(<<<<<<"x", "s">>, ListV(<<MapV(<<<<<<"x", "s">>, ListV(<<MapV(<<<<<<"x", "s">>, ListV(<<>>)>>>>)>>)>>>>)>>)>>>>)>>>>)
TreeListRoot == ListV(<<IntV(1), IntV(2)>>)
TreeEmptyA == MapV(<<<<<<"a">>, MapV(<<>>)>>>>)
TreeFive == MapV(<<<<<<"x", "s">>, ListV(<<IntV(1), IntV(2), IntV(3), IntV(4), IntV(5)>>)>>>>)
TreeThree == MapV(<<<<<<"a">>, IntV(1)>>, <<<<"b">>, MapV(<<<<<<"c">>, IntV(2)>>>>)>>, <<<<"c">>, IntV(3)>>>>)
TreeUsers == MapV(<<<<<<"u", "s", "e", "r", "s">>, ListV(<<MapV(<<<<<<"a", "g", "e">>, StrV(<<"3", "0">>)>>>>), MapV(<<<<<<"a", "g", "e">>, StrV(<<"1", "7">>)>>>>), MapV(<<<<<<"a", "g", "e">>, StrV(<<"9">>)>>>>)>>)>>>>)
PathA == <<"a">>
PathAB == <<"a", ".", "b">>
PathBC == <<"b", ".", "c">>
PathMapSuffix == <<"a", ".", "b", "[", "]", ".", "c">>
PathDeepA == <<"*", "*", ".", "a">>
PathIdentity == <<".">>
PathAInc == <<"a", "|", "$", "i", "n", "c">>
PathSInc == <<"s", "|", "$", "i", "n", "c">>
PathFirst == <<"x", "s", "[", "0", "]">>
PathLast == <<"x", "s", "[", "-", "1", "]">>
PathBelow == <<"x", "s", "[", "-", "4", "]">>
PathPad == <<"x", "s", "[", "4", "]">>
PathSlice == <<"x", "s", "[", "1", ":", "]">>
PathFilterK == <<"x", "s", "[", "?", "k", "=", "=", "2", "]">>
PathFilterGt == <<"x", "s", "[", "?", ".", ">", "1", "]">>
PathFilterKV == <<"x", "s", "[", "?", "k", "=", "=", "2", "]", ".", "v">>
PathFilterBadOp == <<"x", "s", "[", "?", "k", ">", "$", "e", "v", "e", "n", "]">>
PathFilterBadField == <<"x", "s", "[", "?", "$", "l", "e", "n", "=", "=", "1", "]">>
PathDeepFilter == <<"*", "*", ".", "x", "s", "[", "?", "x", "s", "=", "=", "[", "]", "]">>
PathWildcard == <<"*">>
PathDeep == <<"*", "*">>
PathRootInside == <<"a", ".", "$", "$", "r", "o", "o", "t">>
PathRootFirst == <<"$", "$", "r", "o", "o", "t", ".", "a">>
PathEmpty == <<>>
PathABC == <<"a", ".", "b", ".", "c">>
PathSliceMid == <<"x", "s", "[", "1", ":", "4", "]">>
PathSliceTail == <<"x", "s", "[", "-", "2", ":", "]">>
PathSliceOver == <<"x", "s", "[", "-", "9", ":", "2", "]">>
PathNestedOut == <<"a", ".", "b", "[", "2", "]">>
PathAdults == <<"u", "s", "e", "r", "s", "[", "?", "a", "g", "e", ">", "=", "1", "8", "]">>
PathMinors == <<"u", "s", "e", "r", "s", "[", "?", "a", "g", "e", "<", "1", "8", "]">>
PathPadDeep == <<"x", "s", "[", "4", "]", ".", "k">>
PathTrailingDot == <<"a", ".">>
PathLeadingDot == <<".", "a">>
PathDoubleDot == <<"a", ".", ".", "b">>
PathFilterTwoOps == <<"x", "s", "[", "?", "a", "=", "=", "b", "=", "=", "c", "]">>
PathFilterEven == <<"x", "s", "[", "?", "k", "=", "=", "$", "e", "v", "e", "n", "]">>
PathFilterRoot == <<"x", "s", "[", "?", ".", "=", "=", "$", "$", "r", "o", "o", "t", ".", "n", "]">>
PathDeepBelowA == <<"a", ".", "*", "*", ".", "c">>
PathRootArgMissing == <<"n", "|", "$", "g", "t", "(", "$", "$", "r", "o", "o", "t", ".", "z", "z", ")">>
PathDeepK == <<"*", "*", ".", "k">>
PathOrAnd == <<"x", "s", "[", "?", ".", "=", "=", "$", "o", "d", "d", "|", "|", "$", "g", "t", "(", "1", ")", "&", "&", "$", "e", "v", "e", "n", "]">>
PathNotAnd == <<"x", "s", "[", "?", ".", "=", "=", "!", "$", "e", "v", "e", "n", "&", "&", "$", "g", "t", "(", "1", ")", "]">>
PathOrShort == <<"u", "s", "e", "r", "s", "[", "?", "a", "g", "e", "=", "=", "$", "l", "e", "n", "|", "|", "$", "i", "n", "c", "]">>
PathFilterNotEven == <<"x", "s", "[", "?", ".", "!", "=", "$", "e", "v", "e", "n", "]">>
PathPredicateBadOp == <<"x", "s", "[", "?", ".", "<", "$", "o", "d", "d", "|", "|", "$", "e", "v", "e", "n", "]">>
PathBadTransformName == <<"a", "|", "$", "n", "o", "p", "e">>
PathBadTransformArgs == <<"a", "|", "$", "g", "t">>
PathBadTransformSegment == <<"a", "|", "$", "g", "t", "(", "1">>
ValueInt == IntV(7)
ValueIncText == StrV(<<"$", "i", "n", "c">>)
ValueRootText == StrV(<<"$", "$", "r", "o", "o", "t", ".", "n">>)
ValueItem == MapV(<<<<<<"k">>, IntV(2)>>, <<<<"v">>, BoolV(TRUE)>>>>)
ValueText == StrV(<<"x">>)
ValueRootArg == StrV(<<"$", "g", "t", "(", "$", "$", "r", "o", "o", "t", ".", "n", ")">>)
ValueNestedA == MapV(<<<<<<"a">>, IntV(0)>>>>)

Trees == {TreeMapOfList, TreeNested, TreeFilter, TreeNumbers, TreeScalars, TreeDeepLists,
          TreeListRoot, TreeEmptyA, TreeFive, TreeThree, TreeUsers}

Paths == {PathA, PathAB, PathBC, PathMapSuffix, PathDeepA, PathIdentity, PathAInc, PathSInc,
          PathFirst, PathLast, PathBelow, PathPad, PathSlice, PathFilterK, PathFilterGt,
          PathFilterKV, PathFilterBadOp, PathFilterBadField, PathDeepFilter, PathWildcard,
          PathDeep, PathRootInside, PathRootFirst, PathEmpty, PathABC, PathSliceMid, PathSliceTail,
          PathSliceOver, PathNestedOut, PathAdults, PathMinors, PathPadDeep, PathTrailingDot,
          PathLeadingDot, PathDoubleDot, PathFilterTwoOps, PathFilterEven, PathFilterRoot,
          PathDeepBelowA, PathRootArgMissing, PathOrAnd, PathNotAnd, PathOrShort,
          PathFilterNotEven, PathPredicateBadOp, PathBadTransformName, PathBadTransformArgs,
          PathBadTransformSegment}

Values == {ValueInt, ValueIncText, ValueRootText, ValueItem, ValueText, ValueRootArg}

(* A default that occurs in no tree. *)
Sentinel == StrV(<<"#">>)

Defaults == {<<>>, <<Sentinel>>}

DefaultOptions ==
  [create_missing |-> TRUE, create_filter_match |-> TRUE, overwrite_incompatible |-> TRUE]

OptionSets == {DefaultOptions,
               [DefaultOptions EXCEPT !.create_missing = FALSE],
               [DefaultOptions EXCEPT !.create_filter_match = FALSE],
               [DefaultOptions EXCEPT !.overwrite_incompatible = FALSE],
               [DefaultOptions EXCEPT !.create_missing = FALSE,
                                      !.overwrite_incompatible = FALSE]}

(* The filter expressions handed to run_filter_function: the output
   transforms of the paths, an expression that compiles and a value that is
   no text. *)
FilterExpressions ==
  {StrV(<<"$", "i", "n", "c">>), StrV(<<"$", "l", "e", "n">>), StrV(<<"$", "g", "t", "(", "1", ")">>), StrV(<<"$", "n", "o", "p", "e">>), StrV(<<"$", "g", "t">>), StrV(<<"$", "g", "t", "(", "1">>), IntV(7)}

(* The inputs of the set that is followed frame by frame through its "**":
   paths that begin with "**", and values that no pipeline stands for, among
   them a mapping that holds the key the path names after "**". *)
DeepSetPaths == {PathDeepA, PathDeepK, PathDeep}

DeepSetValues == {ValueInt, ValueItem, ValueNestedA}

(* The deepest stack of deep_set_walk frames that is followed. *)
MaxDepth == 8

MaxCalls == 1

----------------------------------------------------------------------------
(* The state machine: a caller's tree and the calls made on it.  last
   records the latest call: its inputs, the tree it was given and what it
   returned or raised. *)

NoCall == [op |-> "none", path |-> <<>>, value |-> Null, default |-> <<>>, strict |-> FALSE,
           options |-> DefaultOptions, before |-> Null, outcome |-> Ok(Null),
           filter |-> Null]

Init ==
  /\ data \in Trees
  /\ last = NoCall
  /\ calls = 0
  /\ walk = NoWalk

(* A faulty variant of Get that stores the default it returns at the path,
   as a setdefault would: C7 fails with it. *)
GetStoringDefault ==
  /\ calls < MaxCalls
  /\ \E path \in Paths, default \in Defaults, strict \in BOOLEAN :
       LET found == get(data, path, default, strict)
           fallback == IF default = <<>> THEN Null ELSE default[1]
       IN /\ last' = [NoCall EXCEPT !.op = "get", !.path = path, !.default = default,
                                    !.strict = strict, !.before = data, !.outcome = found]
          /\ data' = IF found = Ok(fallback)
                     THEN set(data, path, fallback, FALSE, TRUE, TRUE, TRUE).tree
                     ELSE data
  /\ calls' = calls + 1
  /\ walk' = walk

Get ==
  /\ calls < MaxCalls
  /\ \E path \in Paths, default \in Defaults, strict \in BOOLEAN :
       last' = [NoCall EXCEPT !.op = "get", !.path = path, !.default = default,
                              !.strict = strict, !.before = data,
                              !.outcome = get(data, path, default, strict)]
  /\ data' = data
  /\ calls' = calls + 1
  /\ walk' = walk

Exists ==
  /\ calls < MaxCalls
  /\ \E path \in Paths, strict \in BOOLEAN :
       LET found == exists(data, path, strict)
       IN last' = [NoCall EXCEPT !.op = "exists", !.path = path, !.strict = strict,
                                 !.before = data,
                                 !.outcome = IF found.ok THEN Ok(BoolV(found.val)) ELSE found]
  /\ data' = data
  /\ calls' = calls + 1
  /\ walk' = walk

Set ==
  /\ calls < MaxCalls
  /\ \E path \in Paths, value \in Values, strict \in BOOLEAN, options \in OptionSets :
       LET done == set(data, path, value, strict, options.create_missing,
                       options.create_filter_match, options.overwrite_incompatible)
       IN /\ last' = [NoCall EXCEPT !.op = "set", !.path = path, !.value = value,
                                    !.strict = strict, !.options = options,
                                    !.before = data, !.outcome = done.outcome]
          /\ data' = done.tree
  /\ calls' = calls + 1
  /\ walk' = walk

Unset ==
  /\ calls < MaxCalls
  /\ \E path \in Paths, strict \in BOOLEAN :
       LET done == unset(data, path, strict)
       IN /\ last' = [NoCall EXCEPT !.op = "unset", !.path = path, !.strict = strict,
                                    !.before = data, !.outcome = done.outcome]
          /\ data' = done.tree
  /\ calls' = calls + 1
  /\ walk' = walk

(* RustDictWalk::set on a path that begins with "**", up to the first call
   of deep_set_walk by set_deep_wildcard_token. *)
DeepSetEnter ==
  /\ ~walk.active /\ calls < MaxCalls
  /\ \E path \in DeepSetPaths, value \in DeepSetValues :
       /\ last' = [NoCall EXCEPT !.op = "set", !.path = path, !.value = value,
                                 !.before = data]
       /\ walk' = deep_set_enter(data, path, value)
  /\ data' = data
  /\ calls' = calls + 1

(* One turn of the loop of the innermost deep_set_walk.  An error ends the
   set with the tree as the walk left it. *)
DeepSetVisit ==
  /\ walk.active /\ Len(walk.stack) < MaxDepth
  /\ walk.stack[Len(walk.stack)].todo # <<>>
  /\ LET turned == deep_set_visit(walk)
     IN IF turned.ok
        THEN /\ walk' = turned.val
             /\ UNCHANGED <<data, last>>
        ELSE /\ walk' = NoWalk
             /\ data' = Val(turned.h, walk.root_data)
             /\ last' = [last EXCEPT !.outcome = Err(turned.err)]
  /\ calls' = calls

(* The innermost deep_set_walk has visited every child and returns; when it
   was the first, set returns the root. *)
DeepSetReturn ==
  /\ walk.active
  /\ walk.stack[Len(walk.stack)].todo = <<>>
  /\ IF Len(walk.stack) = 1
     THEN /\ walk' = NoWalk
          /\ data' = Val(walk.h, walk.root_data)
     ELSE /\ walk' = [walk EXCEPT !.stack = SubSeq(walk.stack, 1, Len(walk.stack) - 1)]
          /\ data' = data
  /\ UNCHANGED <<last, calls>>

RunFilterFunction ==
  /\ calls < MaxCalls
  /\ \E path_filter \in FilterExpressions, value \in Values \cup {data} :
       last' = [NoCall EXCEPT !.op = "run_filter_function", !.filter = path_filter,
                              !.value = value, !.before = data,
                              !.outcome = run_filter_function(path_filter, value)]
  /\ data' = data
  /\ calls' = calls + 1
  /\ walk' = walk

Next == Get \/ Exists \/ Set \/ Unset \/ RunFilterFunction

Spec == Init /\ [][Next]_vars

(* A set through "**" followed one deep_set_walk frame at a time. *)
DeepSetNext == DeepSetEnter \/ DeepSetVisit \/ DeepSetReturn

DeepSetSpec == Init /\ [][DeepSetNext]_vars

----------------------------------------------------------------------------
(* Properties *)

IsWrite == last.op \in {"set", "unset"}
IsRead == last.op \in {"get", "exists"}
LenientDefaults == ~last.strict /\ last.options = DefaultOptions
LastTokens == parse_path(last.path).val

(* Every token selects at most one node of the tree: a Get, an Index, or a
   Filter with at most one match. *)
RECURSIVE SelectsAtMostOne(_, _, _)
SelectsAtMostOne(tokens, current, root_data) ==
  IF tokens = <<>> THEN TRUE
  ELSE LET kind == Head(tokens).kind
           resolved == resolve_token(current, root_data, kind)
       IN /\ kind.kind \in {"Get", "Index", "Filter"}
          /\ resolved.ok =>
               /\ kind.kind = "Filter" => Len(resolved.val.l) <= 1
               /\ SelectsAtMostOne(Tail(tokens), resolved.val, root_data)

(* C1 (as claimed): after a successful lenient set with the default options
   through a path whose tokens each select at most one node, get on the
   same path returns the value that was set, whatever the value and the
   indexes are. *)
C1_SetThenGet ==
  (/\ last.op = "set" /\ LenientDefaults /\ last.outcome.ok
   /\ parse_path(last.path).ok
   /\ SelectsAtMostOne(LastTokens, data, data))
  => get(data, last.path, <<>>, FALSE) = Ok(last.value)

(* No Index token of the path lies below minus the length of the list it
   meets on the way; a missing or non-list value counts as an empty list. *)
RECURSIVE IndexesInRange(_, _)
IndexesInRange(tokens, current) ==
  IF tokens = <<>> THEN TRUE
  ELSE LET kind == Head(tokens).kind
           child == IF current # <<>> /\ IsDict(current[1])
                    THEN DictGet(current[1], kind.key) ELSE <<>>
           items == IF child # <<>> /\ IsList(child[1]) THEN child[1].l ELSE <<>>
           len == Len(items)
           at == IF kind.index < 0 THEN len + kind.index + 1 ELSE kind.index + 1
       IN IF kind.kind = "Get" THEN IndexesInRange(Tail(tokens), child)
          ELSE /\ kind.index >= 0 - len
               /\ IndexesInRange(Tail(tokens), IF at <= len THEN <<items[at]>> ELSE <<>>)

(* A path made of Get and Index tokens only, read the same way by get and
   set: not the identity path and without an output transform. *)
PlainPath(path) ==
  /\ path # <<".">>
  /\ split_path_and_transform(path).transform = <<>>
  /\ parse_path(path).ok
  /\ \A j \in 1..Len(parse_path(path).val) :
       parse_path(path).val[j].kind.kind \in {"Get", "Index"}

(* A value that set stores as it is: not a string that starts with "$$root"
   or compiles as a filter pipeline. *)
StoredVerbatim(value) ==
  IsStr(value) => /\ ~StartsWith(value.s, RootWord)
                  /\ compile_builtin_pipeline(value.s, <<>>) = <<>>

C1_Case ==
  /\ last.op = "set" /\ LenientDefaults
  /\ IsDict(last.before)
  /\ PlainPath(last.path)
  /\ IndexesInRange(LastTokens, <<last.before>>)
  /\ StoredVerbatim(last.value)

(* C1 (amended): on a mapping, a lenient set with the default options of a
   value stored verbatim, through a path of Get and Index tokens that is
   not "." , has no output transform and has no index below minus the
   length of its list, succeeds, and get on the same path then returns
   that value. *)
C1_SetThenGetAmended ==
  C1_Case => /\ last.outcome.ok
             /\ get(data, last.path, <<>>, FALSE) = Ok(last.value)

C1_Witness == C1_Case /\ last.path = PathPad /\ last.value = ValueItem /\ data # last.before

(* C2 (as claimed): a lenient exists is true exactly when a lenient get
   with a sentinel default returns something other than the sentinel. *)
C2_ExistsAgreesWithGet ==
  (last.op = "exists" /\ ~last.strict /\ last.outcome.ok)
  => LET found == get(last.before, last.path, <<Sentinel>>, FALSE)
     IN last.outcome.val.b <=> (found.ok /\ found.val # Sentinel)

(* The path of the last call has no "**" token and does not end in an
   Index or a Slice token. *)
UnsetStable ==
  parse_path(last.path).ok =>
    /\ \A j \in 1..Len(LastTokens) : LastTokens[j].kind.kind # "DeepWildcard"
    /\ LastTokens[Len(LastTokens)].kind.kind \notin {"Index", "Slice"}

(* C3 (as claimed): a second unset with the same path leaves the result of
   the first unchanged, for every path. *)
C3_UnsetIdempotent ==
  last.op = "unset" => unset(data, last.path, last.strict).tree = data

(* C3 (amended): a second unset with the same path leaves the result of
   the first unchanged when the path has no "**" token and does not end in
   an Index or a Slice token. *)
C3_UnsetIdempotentAmended ==
  (last.op = "unset" /\ UnsetStable) => unset(data, last.path, last.strict).tree = data

C3_Witness ==
  /\ last.op = "unset" /\ UnsetStable /\ last.path = PathFilterGt
  /\ data # last.before

(* A read of the path meets a soft error kind: in the token loop, or in the
   output transform that get applies after it. *)
ReadMeetsSoftError ==
  LET split == split_path_and_transform(last.path)
      walked_get == IF split.base = <<".">> THEN Ok(last.before)
                    ELSE WalkTokens(parse_path(split.base).val, last.before, last.before)
      transformed == apply_output_transform(walked_get.val, split.transform[1], last.before)
      walked_exists == WalkTokens(LastTokens, last.before, last.before)
  IN IF last.op = "get" THEN
       /\ split.base # <<".">> => parse_path(split.base).ok
       /\ IF ~walked_get.ok THEN is_soft_resolution_error(walked_get.err)
          ELSE /\ split.transform # <<>>
               /\ ~transformed.ok
               /\ is_soft_resolution_error(transformed.err)
     ELSE /\ last.op = "exists"
          /\ parse_path(last.path).ok
          /\ ~walked_exists.ok
          /\ is_soft_resolution_error(walked_exists.err)

(* C4 (as claimed): a read that meets a soft error kind anywhere returns
   the default (get) or false (exists) when lenient and raises a
   ResolutionError when strict. *)
C4_SoftErrorsOfReads ==
  ReadMeetsSoftError =>
    last.outcome =
      (IF last.strict THEN Err("ResolutionError")
       ELSE IF last.op = "exists" THEN Ok(BoolV(FALSE))
       ELSE Ok(IF last.default = <<>> THEN Null ELSE last.default[1]))

(* The path has a "$$root" segment. *)
HasRootSegment(path) ==
  \E j \in 1..Len(split_raw_path_tokens(path)) : split_raw_path_tokens(path)[j] = RootWord

(* C5: set and unset through a path with a "$$root" segment at any
   position fail with a ParseError and leave the tree as it was, strict or
   lenient. *)
C5_RootInWritePath ==
  (IsWrite /\ HasRootSegment(last.path))
  => last.outcome = Err("ParseError") /\ data = last.before

C5_Witness ==
  /\ last.op = "set" /\ last.path = PathRootInside /\ last.strict
  /\ last.outcome = Err("ParseError")

(* The part of the path that strict mode resolves first (all tokens but
   the last for set, all tokens for unset) does not resolve on the tree
   the call was given. *)
StrictPartUnresolved ==
  /\ IsWrite /\ last.strict
  /\ parse_path(last.path).ok
  /\ ~path_uses_root_token(LastTokens)
  /\ ~WalkTokens(SubSeq(LastTokens, 1,
                        IF last.op = "set" THEN Len(LastTokens) - 1 ELSE Len(LastTokens)),
                 last.before, last.before).ok

(* C6: a strict set or unset whose path does not resolve fails and leaves
   the tree as it was. *)
C6_StrictFailureKeepsTree ==
  StrictPartUnresolved => ~last.outcome.ok /\ data = last.before

C6_Witness ==
  /\ StrictPartUnresolved /\ last.op = "set" /\ last.path = PathBC
  /\ last.outcome = Err("ResolutionError")

(* C7: get and exists leave the tree as it was, whether they return or raise. *)
C7_ReadsArePure == IsRead => data = last.before

C7_Witness == last.op = "get" /\ ~last.outcome.ok /\ last.default # <<>>

(* C8 (as claimed): get of "a.b[].c" on {"a":{"b":[{"c":1},{"c":2}]}} returns [1,2]. *)
C8_MapSuffixAfterKey ==
  (last.op = "get" /\ last.before = TreeMapOfList /\ last.path = PathMapSuffix)
  => last.outcome = Ok(ListV(<<IntV(1), IntV(2)>>))

(* C9 (as claimed): get of "**.a" on {"a":{"b":{"a":42}}} returns a list
   that holds the inner mapping {"a":42} and, after it, 42. *)
C9_DeepHoldsInnerMapping ==
  (last.op = "get" /\ last.before = TreeNested /\ last.path = PathDeepA)
  => /\ last.outcome.ok
     /\ IsList(last.outcome.val)
     /\ \E i, j \in 1..Len(last.outcome.val.l) :
          /\ i < j
          /\ last.outcome.val.l[i] = MapV(<<<<<<"a">>, IntV(42)>>>>)
          /\ last.outcome.val.l[j] = IntV(42)

(* C9 (amended): on {"a":{"b":{"a":42}}}, get of "**" returns the
   descendants in pre-order, {"b":{"a":42}}, {"a":42}, 42, and get of
   "**.a" returns [42]: the inner mapping is a descendant, not a value
   of the key a. *)
C9_DeepProjection ==
  (last.op = "get" /\ last.before = TreeNested)
  => /\ last.path = PathDeepA => last.outcome = Ok(ListV(<<IntV(42)>>))
     /\ last.path = PathDeep
          => last.outcome = Ok(ListV(<<MapV(<<<<<<"b">>, MapV(<<<<<<"a">>, IntV(42)>>>>)>>>>), MapV(<<<<<<"a">>, IntV(42)>>>>), IntV(42)>>))

C9_Witness ==
  /\ last.op = "get" /\ last.before = TreeNested /\ last.path = PathDeepA
  /\ last.outcome = Ok(ListV(<<IntV(42)>>))

C10_Case ==
  /\ last.op = "set" /\ ~last.strict
  /\ last.before = TreeFilter /\ last.path = PathFilterK /\ last.value = ValueItem

(* C10 (as claimed): set of {"k":2,"v":true} through "xs[?k==2]" on
   {"xs":[{"k":1}]} leaves {"xs":[{"k":1},{"k":2}]} with the default
   options and leaves the tree unchanged with create_filter_match=false. *)
C10_FilterCreates ==
  C10_Case =>
    /\ last.options = DefaultOptions => data = MapV(<<<<<<"x", "s">>, ListV(<<MapV(<<<<<<"k">>, IntV(1)>>>>), MapV(<<<<<<"k">>, IntV(2)>>>>)>>)>>>>)
    /\ last.options = [DefaultOptions EXCEPT !.create_filter_match = FALSE]
         => data = last.before

(* C10 (amended): with the default options the element created for the
   filter is replaced by the new value, so the tree becomes
   {"xs":[{"k":1},{"k":2,"v":true}]}; with create_filter_match=false the
   tree is unchanged. *)
C10_FilterCreatesAmended ==
  C10_Case =>
    /\ last.options = DefaultOptions => data = MapV(<<<<<<"x", "s">>, ListV(<<MapV(<<<<<<"k">>, IntV(1)>>>>), MapV(<<<<<<"k">>, IntV(2)>>, <<<<"v">>, BoolV(TRUE)>>>>)>>)>>>>)
    /\ last.options = [DefaultOptions EXCEPT !.create_filter_match = FALSE]
         => data = last.before

C10_Witness == C10_Case /\ last.options = DefaultOptions /\ data # last.before

----------------------------------------------------------------------------
(* C11: set along plain keys *)

(* The keys of a path of Get tokens, or of Get tokens and a last token that
   names its list by key. *)
KeysOf(tokens) == [j \in 1..Len(tokens) |-> tokens[j].kind.key]

(* A path of Get tokens only, without an output transform and not ".". *)
PlainKeyPath(path) ==
  /\ PlainPath(path)
  /\ \A j \in 1..Len(parse_path(path).val) : parse_path(path).val[j].kind.kind = "Get"

(* Every key of the path before the last that is present holds a mapping. *)
RECURSIVE ThroughMappings(_, _)
ThroughMappings(keys, tree) ==
  /\ IsDict(tree)
  /\ Len(keys) > 1 /\ DictHas(tree, Head(keys)) =>
       ThroughMappings(Tail(keys), DictGet(tree, Head(keys))[1])

(* Some key of the path before the last is present, reached through
   mappings, and holds a value that is neither a mapping nor a list. *)
RECURSIVE ScalarBeforeLast(_, _)
ScalarBeforeLast(keys, tree) ==
  /\ Len(keys) > 1 /\ IsDict(tree) /\ DictHas(tree, Head(keys))
  /\ LET child == DictGet(tree, Head(keys))[1]
     IN \/ ~IsDict(child) /\ ~IsList(child)
        \/ ScalarBeforeLast(Tail(keys), child)

(* The tree with the value stored under the chain of keys, every missing
   key on the way created as an empty mapping. *)
RECURSIVE PlainWrite(_, _, _)
PlainWrite(tree, keys, value) ==
  LET child == DictGet(tree, Head(keys))
  IN IF Len(keys) = 1 THEN DictSet(tree, Head(keys), value)
     ELSE DictSet(tree, Head(keys),
                  PlainWrite(IF child = <<>> THEN MapV(<<>>) ELSE child[1], Tail(keys), value))

NoCreate == ~last.options.create_missing

(* set with create_missing along plain keys that meet only mappings. *)
C11_CreateCase ==
  /\ last.op = "set" /\ last.options.create_missing
  /\ PlainKeyPath(last.path)
  /\ ThroughMappings(KeysOf(LastTokens), last.before)
  /\ StoredVerbatim(last.value)

(* set without create_missing along plain keys that do not resolve. *)
C11_NoCreateCase ==
  /\ last.op = "set" /\ NoCreate
  /\ PlainKeyPath(last.path)
  /\ ~get(last.before, last.path, <<>>, TRUE).ok

(* C11 (as claimed): along plain keys, a set with create_missing creates
   every missing intermediate key as an empty mapping and writes the value
   at the last key; without create_missing, a path that does not resolve
   leaves the tree as it was. *)
C11_PlainKeySet ==
  /\ C11_CreateCase => data = PlainWrite(last.before, KeysOf(LastTokens), last.value)
  /\ C11_NoCreateCase => data = last.before

(* The call that overwrites a scalar met before the last key: it does not
   raise (a strict call raises when the keys before the last do not
   resolve) and overwrite_incompatible is set. *)
OverwritesScalar ==
  /\ last.outcome.ok /\ last.options.overwrite_incompatible
  /\ ScalarBeforeLast(KeysOf(LastTokens), last.before)

(* C11 (amended): along plain keys, a lenient set with create_missing
   creates every missing intermediate key as an empty mapping and writes the
   value at the last key, and a strict one does so when all keys before the
   last resolve; without create_missing, a path that does not resolve
   leaves the tree as it was unless overwrite_incompatible is set, the
   call does not raise and a key before the last holds a scalar, which is
   then replaced by an empty mapping and nothing else is written. *)
C11_PlainKeySetAmended ==
  /\ (C11_CreateCase /\ (last.strict => last.outcome.ok)) =>
       /\ last.outcome.ok
       /\ data = PlainWrite(last.before, KeysOf(LastTokens), last.value)
  /\ (C11_NoCreateCase /\ ~OverwritesScalar) => data = last.before
  /\ (C11_NoCreateCase /\ OverwritesScalar) =>
       /\ data # last.before
       /\ ~get(data, last.path, <<>>, TRUE).ok

C11_Witness ==
  /\ C11_CreateCase /\ ~last.strict
  /\ last.before = TreeEmptyA /\ last.path = PathABC /\ last.value = ValueInt
  /\ data = MapV(<<<<<<"a">>, MapV(<<<<<<"b">>, MapV(<<<<<<"c">>, IntV(7)>>>>)>>>>)>>>>)

----------------------------------------------------------------------------
(* C12: unset of a terminal slice *)

(* The value under a chain of keys, each looked up in a mapping, if any. *)
RECURSIVE ValueAt(_, _)
ValueAt(keys, tree) ==
  IF keys = <<>> THEN <<tree>>
  ELSE IF ~IsDict(tree) \/ ~DictHas(tree, Head(keys)) THEN <<>>
  ELSE ValueAt(Tail(keys), DictGet(tree, Head(keys))[1])

(* Python's slice s:e of a list of the given length holds the zero-based
   position j. *)
InPySlice(j, len, start, end) ==
  /\ start # <<>> => j >= (IF start[1] < 0 THEN start[1] + len ELSE start[1])
  /\ end # <<>> => j < (IF end[1] < 0 THEN end[1] + len ELSE end[1])

(* The list without the positions of the slice, the others in order. *)
WithoutPySlice(items, start, end) ==
  SelectByMask(items, [j \in 1..Len(items) |-> ~InPySlice(j - 1, Len(items), start, end)])

(* unset through Get tokens and a terminal Slice that meets a list. *)
C12_Case ==
  /\ last.op = "unset" /\ parse_path(last.path).ok
  /\ LastTokens[Len(LastTokens)].kind.kind = "Slice"
  /\ \A j \in 1..(Len(LastTokens) - 1) : LastTokens[j].kind.kind = "Get"
  /\ ValueAt(KeysOf(LastTokens), last.before) # <<>>
  /\ IsList(ValueAt(KeysOf(LastTokens), last.before)[1])

(* C12: unset of a terminal slice k[s:e] on a list removes exactly the
   positions Python's slice s:e selects and leaves everything else of the
   tree as it was. *)
C12_UnsetSlice ==
  C12_Case =>
    LET kind == LastTokens[Len(LastTokens)].kind
        items == ValueAt(KeysOf(LastTokens), last.before)[1].l
    IN /\ last.outcome.ok
       /\ data = PlainWrite(last.before, KeysOf(LastTokens),
                            ListV(WithoutPySlice(items, kind.start, kind.end)))

C12_Witness ==
  /\ C12_Case /\ last.before = TreeFive /\ last.path = PathSliceMid
  /\ data = MapV(<<<<<<"x", "s">>, ListV(<<IntV(1), IntV(5)>>)>>>>)

----------------------------------------------------------------------------
(* C13: unset keeps the order of what remains *)

(* What is left of a value after removals: a scalar is itself, a list is a
   subsequence of the old elements, each left over in its turn, and a
   mapping holds a subsequence of the old keys, in the old order, each
   with what is left of its old value. *)
RECURSIVE LeftOver(_, _)
RECURSIVE LeftOverItems(_, _)
RECURSIVE LeftOverPairs(_, _)
LeftOver(after, before) ==
  IF IsList(after) /\ IsList(before) THEN LeftOverItems(after.l, before.l)
  ELSE IF IsDict(after) /\ IsDict(before) THEN LeftOverPairs(after.m, before.m)
  ELSE after = before

LeftOverItems(after, before) ==
  \/ after = <<>>
  \/ /\ before # <<>>
     /\ \/ LeftOver(Head(after), Head(before)) /\ LeftOverItems(Tail(after), Tail(before))
        \/ LeftOverItems(after, Tail(before))

LeftOverPairs(after, before) ==
  \/ after = <<>>
  \/ /\ before # <<>>
     /\ \/ /\ Head(after)[1] = Head(before)[1]
           /\ LeftOver(Head(after)[2], Head(before)[2])
           /\ LeftOverPairs(Tail(after), Tail(before))
        \/ LeftOverPairs(after, Tail(before))

(* C13: after an unset, the list elements that remain keep their relative
   order and the mapping keys that remain keep their insertion order. *)
C13_UnsetKeepsOrder ==
  last.op = "unset" => LeftOver(data, last.before)

(* An unset that removed the first element of a list and left two. *)
C13_Witness ==
  /\ last.op = "unset" /\ last.before = TreeNumbers /\ last.path = PathFirst
  /\ data = MapV(<<<<<<"x", "s">>, ListV(<<IntV(2), IntV(3)>>)>>, <<<<"n">>, IntV(2)>>>>)

----------------------------------------------------------------------------
(* C14: an index out of range is a hard error of reads *)

(* The tokens a read walks: get splits an output transform off first. *)
ReadTokens ==
  IF last.op = "get" THEN parse_path(split_path_and_transform(last.path).base)
  ELSE parse_path(last.path)

(* The walk reaches an Index token k[i] at a mapping whose key k holds a
   list, with i >= len or i < -len. *)
RECURSIVE MeetsIndexOutOfRange(_, _, _)
MeetsIndexOutOfRange(tokens, current, root_data) ==
  /\ tokens # <<>>
  /\ LET kind == Head(tokens).kind
         resolved == resolve_token(current, root_data, kind)
         held == DictGet(current, kind.key)
     IN IF kind.kind = "Root" THEN MeetsIndexOutOfRange(Tail(tokens), root_data, root_data)
        ELSE \/ /\ kind.kind = "Index" /\ IsDict(current)
                /\ held # <<>> /\ IsList(held[1])
                /\ (kind.index >= Len(held[1].l) \/ kind.index < 0 - Len(held[1].l))
             \/ /\ resolved.ok
                /\ MeetsIndexOutOfRange(Tail(tokens), resolved.val, root_data)

C14_Case ==
  /\ IsRead /\ ReadTokens.ok
  /\ MeetsIndexOutOfRange(ReadTokens.val, last.before, last.before)

(* C14: a read whose walk meets an Index token k[i] at an existing list
   with i out of range raises IndexError, from get and from exists, lenient
   and strict: never the default, false or a ResolutionError. *)
C14_IndexOutOfRangeRaises ==
  C14_Case => last.outcome = Err("IndexError")

(* A lenient get with a default and an index below -len. *)
C14_Witness ==
  /\ C14_Case /\ last.op = "get" /\ ~last.strict /\ last.default = <<Sentinel>>
  /\ last.before = TreeNumbers /\ last.path = PathBelow

----------------------------------------------------------------------------
(* C15: ordering filters on numeric text *)

(* The number a text of digits with an optional minus sign denotes. *)
NumberOf(text) ==
  IF Head(text) = "-" THEN 0 - DigitsValue(Tail(text)) ELSE DigitsValue(text)

(* a op b on numbers, for an ordering operator. *)
NumberHolds(operator, a, b) ==
  CASE operator = <<">">> -> a > b
    [] operator = <<"<">> -> a < b
    [] operator = <<">", "=">> -> a >= b
    [] operator = <<"<", "=">> -> a <= b

(* The single token of the path of the latest call. *)
OnlyToken == LastTokens[1].kind

(* The list the single Filter token of the latest call names. *)
FilteredItems == DictGet(last.before, OnlyToken.list_key)[1].l

(* get through one Filter token k[?field op literal] with a bare key as
   field, an ordering operator and an integer literal, on a list of
   mappings whose field values are all strings that parse as integers. *)
C15_Case ==
  /\ last.op = "get" /\ last.path # <<".">>
  /\ split_path_and_transform(last.path).transform = <<>> /\ parse_path(last.path).ok
  /\ Len(LastTokens) = 1 /\ OnlyToken.kind = "Filter"
  /\ IsOrdering(OnlyToken.operator)
  /\ IsPyIntLiteral(OnlyToken.value)
  /\ compile_filter_matcher(OnlyToken.field, OnlyToken.value).val.field_resolver.t = "Key"
  /\ IsDict(last.before) /\ DictHas(last.before, OnlyToken.list_key)
  /\ IsList(DictGet(last.before, OnlyToken.list_key)[1])
  /\ \A j \in 1..Len(FilteredItems) :
       /\ IsDict(FilteredItems[j]) /\ DictHas(FilteredItems[j], OnlyToken.field)
       /\ IsStr(DictGet(FilteredItems[j], OnlyToken.field)[1])
       /\ IsPyIntLiteral(DictGet(FilteredItems[j], OnlyToken.field)[1].s)

(* C15: a filter with an ordering operator and a numeric literal selects an
   element whose field is a string that parses as a number exactly when
   the parsed number satisfies the operator against the literal. *)
C15_OrderingOnNumericText ==
  C15_Case =>
    last.outcome =
      Ok(ListV(SelectByMask(FilteredItems,
           [j \in 1..Len(FilteredItems) |->
              NumberHolds(OnlyToken.operator,
                          NumberOf(DictGet(FilteredItems[j], OnlyToken.field)[1].s),
                          NumberOf(OnlyToken.value))])))

C15_Witness ==
  /\ C15_Case /\ last.before = TreeUsers /\ last.path = PathAdults
  /\ last.outcome = Ok(ListV(<<MapV(<<<<<<"a", "g", "e">>, StrV(<<"3", "0">>)>>>>)>>))

----------------------------------------------------------------------------
(* C16: what set creates on its own *)

(* A node made by set: the written value, null, or a mapping or a list of
   such nodes; seeds are the key-value pairs a made mapping may also hold. *)
RECURSIVE MadeBySet(_, _, _)
MadeBySet(node, value, seeds) ==
  \/ node = value
  \/ node = Null
  \/ /\ IsDict(node)
     /\ \A j \in 1..Len(node.m) :
          node.m[j] \in seeds \/ MadeBySet(node.m[j][2], value, seeds)
  \/ /\ IsList(node)
     /\ \A j \in 1..Len(node.l) : MadeBySet(node.l[j], value, seeds)

(* The tree after a set against the tree before: every node is the old
   node, or the old mapping or list with nodes made by set added, or a node
   made by set. *)
RECURSIVE KeptOrMade(_, _, _, _)
KeptOrMade(after, before, value, seeds) ==
  \/ after = before
  \/ MadeBySet(after, value, seeds)
  \/ /\ IsDict(after) /\ IsDict(before)
     /\ \A j \in 1..Len(before.m) : DictHas(after, before.m[j][1])
     /\ \A j \in 1..Len(after.m) :
          IF DictHas(before, after.m[j][1])
          THEN KeptOrMade(after.m[j][2], DictGet(before, after.m[j][1])[1], value, seeds)
          ELSE after.m[j] \in seeds \/ MadeBySet(after.m[j][2], value, seeds)
  \/ /\ IsList(after) /\ IsList(before)
     /\ Len(after.l) >= Len(before.l)
     /\ \A j \in 1..Len(after.l) :
          IF j <= Len(before.l) THEN KeptOrMade(after.l[j], before.l[j], value, seeds)
          ELSE MadeBySet(after.l[j], value, seeds)

(* The pairs field: value text of the Filter tokens of the path. *)
FilterSeeds ==
  {<<LastTokens[j].kind.field, StrV(LastTokens[j].kind.value)>> :
     j \in {i \in 1..Len(LastTokens) : LastTokens[i].kind.kind = "Filter"}}

C16_Case ==
  /\ last.op = "set" /\ parse_path(last.path).ok
  /\ StoredVerbatim(last.value)

(* The elements of the list under the key of the Index token, none when
   the key is missing. *)
PaddedItems ==
  IF DictHas(last.before, OnlyToken.key)
  THEN DictGet(last.before, OnlyToken.key)[1].l ELSE <<>>

(* A lenient set with the default options through k[i] or k[i].c, on a
   mapping whose key k is missing or holds a list shorter than i + 1. *)
C16_PadCase ==
  /\ C16_Case /\ LenientDefaults /\ IsDict(last.before)
  /\ Len(LastTokens) \in {1, 2} /\ OnlyToken.kind = "Index"
  /\ Len(LastTokens) = 2 => LastTokens[2].kind.kind = "Get"
  /\ DictHas(last.before, OnlyToken.key) => IsList(DictGet(last.before, OnlyToken.key)[1])
  /\ OnlyToken.index >= Len(PaddedItems)

(* The padded list: the old elements, the fillers, and the new element. *)
PaddedWith(filler, element) ==
  ListV(PaddedItems \o [j \in 1..(OnlyToken.index - Len(PaddedItems)) |-> filler]
        \o <<element>>)

(* The padding of C16: null fillers when the Index token ends the path,
   empty mappings when a key follows. *)
C16_Padding ==
  C16_PadCase =>
    data = DictSet(last.before, OnlyToken.key,
                   IF Len(LastTokens) = 1 THEN PaddedWith(Null, last.value)
                   ELSE PaddedWith(MapV(<<>>),
                                   MapV(<<<<LastTokens[2].kind.key, last.value>>>>)))

(* C16 (as claimed): every node a set adds to the tree, other than the
   written value, is null, a mapping of such nodes or a list of such
   nodes; padding is null at the end of the path and empty mappings before
   a further key. *)
C16_SetCreates ==
  /\ C16_Case => KeptOrMade(data, last.before, last.value, {})
  /\ C16_Padding

(* C16 (amended): as claimed, except that the element a Filter token
   appends is a mapping that holds the filter's field with the filter's
   value text. *)
C16_SetCreatesAmended ==
  /\ C16_Case => KeptOrMade(data, last.before, last.value, FilterSeeds)
  /\ C16_Padding

C16_Witness ==
  /\ C16_PadCase /\ last.before = TreeNumbers /\ last.path = PathPadDeep
  /\ last.value = ValueInt
  /\ data = MapV(<<<<<<"x", "s">>, ListV(<<IntV(1), IntV(2), IntV(3), MapV(<<>>), MapV(<<<<<<"k">>, IntV(7)>>>>)>>)>>, <<<<"n">>, IntV(2)>>>>)

----------------------------------------------------------------------------
(* C17: empty segments *)

(* The path has an empty segment: a leading ".", a trailing "." or "..". *)
HasEmptySegment(path) ==
  /\ path # <<>>
  /\ \E j \in 1..Len(split_raw_path_tokens(path)) : split_raw_path_tokens(path)[j] = <<>>

(* Some mapping of the tree has the empty string as a key. *)
RECURSIVE HasEmptyKey(_)
HasEmptyKey(node) ==
  \/ /\ IsDict(node)
     /\ \E j \in 1..Len(node.m) : node.m[j][1] = <<>> \/ HasEmptyKey(node.m[j][2])
  \/ /\ IsList(node)
     /\ \E j \in 1..Len(node.l) : HasEmptyKey(node.l[j])

(* C17 (as claimed): an empty segment of a path becomes an empty Get token,
   and a set that walks the path rejects it: it never writes the empty
   string as a key of a mapping. *)
C17_EmptySegmentRejected ==
  (/\ last.op = "set" /\ HasEmptySegment(last.path) /\ ~HasEmptyKey(last.before))
  => /\ \E j \in 1..Len(LastTokens) : LastTokens[j].kind = [kind |-> "Get", key |-> <<>>]
     /\ ~HasEmptyKey(data)

----------------------------------------------------------------------------
(* C18: a filter body with more than one comparison operator *)

(* A comparison operator starts at position i of the text. *)
OperatorAt(text, i) ==
  \E j \in 1..Len(FilterOps) :
    /\ i + Len(FilterOps[j]) - 1 <= Len(text)
    /\ SubSeq(text, i, i + Len(FilterOps[j]) - 1) = FilterOps[j]

(* The Filter tokens of the path of the latest call. *)
FilterTokens ==
  {LastTokens[j].kind : j \in {i \in 1..Len(LastTokens) : LastTokens[i].kind.kind = "Filter"}}

C18_Case == last.op # "none" /\ parse_path(last.path).ok /\ FilterTokens # {}

(* C18 (as claimed): the segment parser splits a filter body at its last
   comparison operator, so the value holds no operator: k[?a==b==c] has
   the field a==b and the value c. *)
C18_SplitsAtLastOperator ==
  C18_Case =>
    /\ \A t \in FilterTokens : \A i \in 1..Len(t.value) : ~OperatorAt(t.value, i)
    /\ last.path = PathFilterTwoOps =>
         /\ OnlyToken.field = <<"a", "=", "=", "b">> /\ OnlyToken.value = <<"c">>

(* C18 (amended): the segment parser splits a filter body at its first
   comparison operator that follows a non-empty field, so no operator
   starts inside the field after its first character: k[?a==b==c] has the
   field a and the value b==c. *)
C18_SplitsAtFirstOperator ==
  C18_Case =>
    /\ \A t \in FilterTokens :
         \A i \in 2..Len(t.field) : ~OperatorAt(t.field \o t.operator \o t.value, i)
    /\ last.path = PathFilterTwoOps =>
         /\ OnlyToken.field = <<"a">> /\ OnlyToken.operator = <<"=", "=">>
         /\ OnlyToken.value = <<"b", "=", "=", "c">>

C18_Witness ==
  /\ C18_Case /\ last.path = PathFilterTwoOps /\ last.op = "get"
  /\ OnlyToken.list_key = <<"x", "s">>

----------------------------------------------------------------------------
(* C19: set through an Index token *)

(* set of a value stored verbatim through the single token k[i], on a
   mapping whose key k holds a list. *)
C19_Case ==
  /\ C16_Case /\ IsDict(last.before)
  /\ Len(LastTokens) = 1 /\ OnlyToken.kind = "Index"
  /\ DictHas(last.before, OnlyToken.key)
  /\ IsList(DictGet(last.before, OnlyToken.key)[1])

(* The zero-based position the index of the token denotes in the list. *)
IndexPosition ==
  IF OnlyToken.index < 0 THEN Len(PaddedItems) + OnlyToken.index ELSE OnlyToken.index

(* C19 (as claimed): set through k[i] pads the list up to position i only
   when i >= len and create_missing is set, leaves the tree alone when
   i < -len, and in every other case writes the element at position i,
   whatever create_missing is. *)
C19_SetThroughIndex ==
  C19_Case =>
    data = IF OnlyToken.index < 0 - Len(PaddedItems) THEN last.before
           ELSE IF OnlyToken.index >= Len(PaddedItems)
             THEN (IF last.options.create_missing
                   THEN DictSet(last.before, OnlyToken.key, PaddedWith(Null, last.value))
                   ELSE last.before)
           ELSE DictSet(last.before, OnlyToken.key,
                        ListV([PaddedItems EXCEPT ![IndexPosition + 1] = last.value]))

----------------------------------------------------------------------------
(* C20: when set through a Filter token appends *)

(* The elements of the list under a key of a mapping, none when the key is
   missing. *)
ItemsUnder(tree, key) ==
  IF DictHas(tree, key) THEN DictGet(tree, key)[1].l ELSE <<>>

(* A set that returns, through a path that starts with a Filter token, on a
   mapping whose list key is missing or holds a list. *)
C20_Case ==
  /\ last.op = "set" /\ parse_path(last.path).ok /\ last.outcome.ok
  /\ OnlyToken.kind = "Filter"
  /\ IsDict(last.before)
  /\ DictHas(last.before, OnlyToken.list_key) =>
       IsList(DictGet(last.before, OnlyToken.list_key)[1])
  /\ resolve_token(last.before, last.before, OnlyToken).ok

NoElementMatches == resolve_token(last.before, last.before, OnlyToken).val.l = <<>>

FieldIsBareKey ==
  compile_filter_matcher(OnlyToken.field, OnlyToken.value).val.field_resolver.t = "Key"

ValueIsLiteral ==
  compile_filter_matcher(OnlyToken.field, OnlyToken.value).val.value_matcher.t = "Literal"

(* The list under the filter's key is the old list and one more element,
   or has as many elements as the old one. *)
GrewByOne ==
  /\ IsDict(data) /\ DictHas(data, OnlyToken.list_key)
  /\ IsList(DictGet(data, OnlyToken.list_key)[1])
  /\ Len(ItemsUnder(data, OnlyToken.list_key))
       = Len(ItemsUnder(last.before, OnlyToken.list_key)) + 1

SameLength ==
  /\ IsDict(data)
  /\ DictHas(data, OnlyToken.list_key) => IsList(DictGet(data, OnlyToken.list_key)[1])
  /\ Len(ItemsUnder(data, OnlyToken.list_key))
       = Len(ItemsUnder(last.before, OnlyToken.list_key))

(* The appended element, treated as matched: at the end of the path it is
   replaced by the written value, before a key it is {field: value_text}
   with the value written under that key. *)
AppendedIsMatched ==
  (/\ StoredVerbatim(last.value)
   /\ Len(LastTokens) = 2 => LastTokens[2].kind.kind = "Get"
   /\ Len(LastTokens) <= 2)
  => LET items == ItemsUnder(data, OnlyToken.list_key)
         seed == MapV(<<<<OnlyToken.field, StrV(OnlyToken.value)>>>>)
     IN items[Len(items)] =
          IF Len(LastTokens) = 1 THEN last.value
          ELSE DictSet(seed, LastTokens[2].kind.key, last.value)

(* C20 (as claimed): set through a Filter token appends one element
   {field: value_text}, treated as matched, exactly when no element
   matches, the field is a bare key, the operator is == and create_missing
   and create_filter_match are set; otherwise the list keeps its length. *)
C20_FilterAppends ==
  C20_Case =>
    IF /\ NoElementMatches /\ FieldIsBareKey
       /\ OnlyToken.operator = <<"=", "=">>
       /\ last.options.create_missing /\ last.options.create_filter_match
    THEN GrewByOne /\ AppendedIsMatched
    ELSE SameLength

(* C20 (amended): as claimed, with one more condition for the append: the
   filter's value is a literal, not a pipeline or a predicate. *)
C20_FilterAppendsAmended ==
  C20_Case =>
    IF /\ NoElementMatches /\ FieldIsBareKey /\ ValueIsLiteral
       /\ OnlyToken.operator = <<"=", "=">>
       /\ last.options.create_missing /\ last.options.create_filter_match
    THEN GrewByOne /\ AppendedIsMatched
    ELSE SameLength

C20_Witness ==
  /\ C20_Case /\ last.before = TreeFilter /\ last.path = PathFilterKV
  /\ last.value = ValueInt /\ LenientDefaults
  /\ data = MapV(<<<<<<"x", "s">>, ListV(<<MapV(<<<<<<"k">>, IntV(1)>>>>), MapV(<<<<<<"k">>, StrV(<<"2">>)>>, <<<<"v">>, IntV(7)>>>>)>>)>>>>)

----------------------------------------------------------------------------
(* C21: unset of a terminal filter against get *)

(* The true/false sequences of a length. *)
Masks(n) == [1..n -> BOOLEAN]

(* unset through the single Filter token of a path, on a mapping whose
   list key holds a list, where get on the same path returns a list. *)
C21_Case ==
  /\ last.op = "unset" /\ parse_path(last.path).ok
  /\ Len(LastTokens) = 1 /\ OnlyToken.kind = "Filter"
  /\ IsDict(last.before) /\ DictHas(last.before, OnlyToken.list_key)
  /\ IsList(DictGet(last.before, OnlyToken.list_key)[1])
  /\ get(last.before, last.path, <<>>, TRUE).ok

(* C21 (as claimed): unset with a terminal Filter token drops exactly the
   elements get selects on the same path and tree, a filter value that
   starts with $$root included: the list splits into the elements get
   returns and the elements that remain, each in the original order. *)
C21_UnsetDropsWhatGetSelects ==
  C21_Case =>
    /\ last.outcome.ok
    /\ \E mask \in Masks(Len(FilteredItems)) :
         /\ get(last.before, last.path, <<>>, TRUE).val
              = ListV(SelectByMask(FilteredItems, mask))
         /\ data = DictSet(last.before, OnlyToken.list_key,
                           ListV(SelectByMask(FilteredItems,
                                   [j \in 1..Len(FilteredItems) |-> ~mask[j]])))

----------------------------------------------------------------------------
(* C22: set below a deep wildcard creates nothing *)

(* The node after the set is the node before it, or the written value, or
   an empty mapping or list put in the place of an incompatible value, or
   the old mapping with the same keys or the old list with the same length,
   whose members are such nodes in their turn. *)
RECURSIVE OnlyRewritten(_, _, _)
OnlyRewritten(after, before, value) ==
  \/ after = before
  \/ after = value
  \/ after = MapV(<<>>) \/ after = ListV(<<>>)
  \/ /\ IsDict(after) /\ IsDict(before)
     /\ Len(after.m) = Len(before.m)
     /\ \A j \in 1..Len(after.m) :
          /\ after.m[j][1] = before.m[j][1]
          /\ OnlyRewritten(after.m[j][2], before.m[j][2], value)
  \/ /\ IsList(after) /\ IsList(before)
     /\ Len(after.l) = Len(before.l)
     /\ \A j \in 1..Len(after.l) : OnlyRewritten(after.l[j], before.l[j], value)

(* The position of the first ** token of the path, 0 when it has none. *)
DeepAt ==
  IF \E j \in 1..Len(LastTokens) : LastTokens[j].kind.kind = "DeepWildcard"
  THEN CHOOSE j \in 1..Len(LastTokens) :
         /\ LastTokens[j].kind.kind = "DeepWildcard"
         /\ \A i \in 1..(j - 1) : LastTokens[i].kind.kind # "DeepWildcard"
  ELSE 0

(* The keys of the Get tokens before the first ** token. *)
KeysBeforeDeep == KeysOf(SubSeq(LastTokens, 1, DeepAt - 1))

(* set of a value stored verbatim through a path with a ** token that
   follows Get tokens only, whose keys lead to a node of the tree. *)
C22_Case ==
  /\ C16_Case /\ DeepAt > 0
  /\ \A j \in 1..(DeepAt - 1) : LastTokens[j].kind.kind = "Get"
  /\ ValueAt(KeysBeforeDeep, last.before) # <<>>

(* C22: a set through ** adds no key to a mapping and no element to a list
   at or below the node the ** starts from, whatever create_missing the
   caller passes: only positions that exist are rewritten. *)
C22_DeepSetCreatesNothing ==
  C22_Case =>
    /\ ValueAt(KeysBeforeDeep, data) # <<>>
    /\ OnlyRewritten(ValueAt(KeysBeforeDeep, data)[1],
                     ValueAt(KeysBeforeDeep, last.before)[1], last.value)

(* A set through **.a with create_missing that rewrote the keys a there
   are and added none. *)
C22_Witness ==
  /\ C22_Case /\ LenientDefaults
  /\ last.before = TreeNested /\ last.path = PathDeepA /\ last.value = ValueInt
  /\ data # last.before

----------------------------------------------------------------------------
(* C23: pipeline arguments that begin with "$$root" *)

(* The text of a pipeline one of whose filters takes an argument that begins
   with "$$root". *)
HasRootArgument(text) ==
  /\ StartsWith(text, <<"$">>)
  /\ \E j \in 2..Len(text) :
       /\ text[j - 1] \in {"(", ","}
       /\ j + Len(RootWord) - 1 <= Len(text)
       /\ SubSeq(text, j, j + Len(RootWord) - 1) = RootWord

(* A set whose value is such a pipeline, written at a path of keys. *)
C23_SetCase ==
  /\ last.op = "set" /\ last.outcome.ok
  /\ IsStr(last.value) /\ HasRootArgument(last.value.s)
  /\ PlainKeyPath(last.path)

(* A get whose output transform is such a pipeline and whose base path
   resolves, so that the transform is reached. *)
C23_GetCase ==
  /\ last.op = "get" /\ last.outcome.ok
  /\ split_path_and_transform(last.path).transform # <<>>
  /\ HasRootArgument(split_path_and_transform(last.path).transform[1])
  /\ get(last.before, split_path_and_transform(last.path).base, <<>>, TRUE).ok

(* C23: a pipeline argument that begins with "$$root" is replaced by the
   result of a strict get against the root of the operation wherever the
   pipeline is compiled, and a failure of that get raises: a set that returns
   does not store the text of the pipeline, and a get that returns has
   compiled its output transform against the root. *)
C23_RootArgumentResolved ==
  /\ C23_SetCase => ValueAt(KeysOf(LastTokens), data) # <<last.value>>
  /\ C23_GetCase =>
       compile_builtin_pipeline(split_path_and_transform(last.path).transform[1],
                                <<last.before>>) # <<>>

----------------------------------------------------------------------------
(* C24: set and unset terminate *)

(* The larger of two numbers, and the depth of a value: 0 for a scalar, one
   more than its deepest child for a mapping or a list. *)
Larger(a, b) == IF a >= b THEN a ELSE b

RECURSIVE DeepestOf(_)
RECURSIVE TreeDepth(_)
DeepestOf(values) ==
  IF values = <<>> THEN 0 ELSE Larger(TreeDepth(Head(values)), DeepestOf(Tail(values)))

TreeDepth(v) ==
  IF IsList(v) THEN 1 + DeepestOf(v.l)
  ELSE IF IsDict(v) THEN 1 + DeepestOf(DictValues(v))
  ELSE 0

(* C24: a set on a finite tree with a finite path terminates with a depth of
   recursion bounded by the length of the path and the depth of the tree,
   also through "**" with a value that is a mapping holding the key named
   after "**": the frames of deep_set_walk never outnumber the tokens of the
   path plus the depths of the tree and of the written value. *)
C24_DeepSetDepthBounded ==
  walk.active =>
    Len(walk.stack) <= Len(walk.remaining) + TreeDepth(last.before) + TreeDepth(last.value)

----------------------------------------------------------------------------
(* C25: get of "**" *)

(* The children of a value in list order or mapping insertion order. *)
ChildrenOf(v) == IF IsList(v) THEN v.l ELSE IF IsDict(v) THEN DictValues(v) ELSE <<>>

(* The places of the proper descendants of a value: a place is the sequence
   of child numbers that leads from the value down to the descendant. *)
RECURSIVE PlacesUnder(_)
PlacesUnder(v) ==
  UNION {{<<j>>} \cup {<<j>> \o p : p \in PlacesUnder(ChildrenOf(v)[j])} :
         j \in 1..Len(ChildrenOf(v))}

(* The descendant at a place. *)
RECURSIVE NodeAt(_, _)
NodeAt(v, place) ==
  IF place = <<>> THEN v ELSE NodeAt(ChildrenOf(v)[Head(place)], Tail(place))

(* Pre-order on places: an ancestor before its descendants, and where two
   places part, the one through the earlier sibling first. *)
RECURSIVE PlaceBefore(_, _)
PlaceBefore(p, q) ==
  IF q = <<>> THEN FALSE
  ELSE IF p = <<>> THEN TRUE
  ELSE IF Head(p) # Head(q) THEN Head(p) < Head(q)
  ELSE PlaceBefore(Tail(p), Tail(q))

C25_Case ==
  /\ last.op = "get" /\ last.path = PathDeep
  /\ IsDict(last.before) \/ IsList(last.before)

(* C25: get of "**" returns every proper descendant of the node exactly
   once and in pre-order: the list has one item for each place under the
   node, and the item for a place stands after as many items as there are
   places before it in pre-order. *)
C25_DeepIsPreOrder ==
  C25_Case =>
    /\ last.outcome.ok /\ IsList(last.outcome.val)
    /\ Len(last.outcome.val.l) = Cardinality(PlacesUnder(last.before))
    /\ \A p \in PlacesUnder(last.before) :
         last.outcome.val.l[1 + Cardinality({q \in PlacesUnder(last.before) :
                                               PlaceBefore(q, p)})]
           = NodeAt(last.before, p)

(* get of "**" on {"a":1,"b":{"c":2},"c":3} returns 1, {"c":2}, 2, 3: the
   child of b stands before the next sibling of b. *)
C25_Witness ==
  /\ C25_Case /\ last.before = TreeThree
  /\ last.outcome = Ok(ListV(<<IntV(1), MapV(<<<<<<"c">>, IntV(2)>>>>), IntV(2), IntV(3)>>))

----------------------------------------------------------------------------
(* C26: boolean predicate expressions *)

(* The integers of the list xs of the tree the call was given that a
   condition holds of, in list order. *)
IntsOfXs(tree) ==
  IF IsDict(tree) /\ DictHas(tree, <<"x", "s">>) /\ IsList(DictGet(tree, <<"x", "s">>)[1])
     /\ \A j \in 1..Len(DictGet(tree, <<"x", "s">>)[1].l) : DictGet(tree, <<"x", "s">>)[1].l[j].k = "int"
  THEN <<DictGet(tree, <<"x", "s">>)[1].l>> ELSE <<>>

OrAndHolds(v) == (v.i % 2 = 1) \/ (v.i > 1 /\ v.i % 2 = 0)
NotAndHolds(v) == ~(v.i % 2 = 0) /\ v.i > 1

(* The predicate the value side of the filter of the path compiles to. *)
PredicateOf(path) == compile_builtin_or_boolean_predicate(parse_path(path).val[1].kind.value)

C26_Case ==
  /\ last.op = "get" /\ last.path \in {PathOrAnd, PathNotAnd}
  /\ IntsOfXs(last.before) # <<>>

(* C26: "||" binds loosest, then "&&", then "!": "$odd||$gt(1)&&$even" is
   Or(odd, And(gt, even)) and "!$even&&$gt(1)" is And(Not(even), gt), and a
   filter on either selects the elements its standard boolean value holds
   of; with short-circuiting, "$len||$inc" never applies $inc to a text of
   length above 0, which would raise. *)
C26_PredicatePrecedence ==
  /\ (last.op = "get" /\ last.path = PathOrAnd) =>
       /\ PredicateOf(PathOrAnd).some[1].t = "Or"
       /\ PredicateOf(PathOrAnd).some[1].l.t = "Pipeline"
       /\ PredicateOf(PathOrAnd).some[1].r.t = "And"
       /\ C26_Case =>
            last.outcome = Ok(ListV(SelectSeq(IntsOfXs(last.before)[1], OrAndHolds)))
  /\ (last.op = "get" /\ last.path = PathNotAnd) =>
       /\ PredicateOf(PathNotAnd).some[1].t = "And"
       /\ PredicateOf(PathNotAnd).some[1].l.t = "Not"
       /\ PredicateOf(PathNotAnd).some[1].r.t = "Pipeline"
       /\ C26_Case =>
            last.outcome = Ok(ListV(SelectSeq(IntsOfXs(last.before)[1], NotAndHolds)))
  /\ (last.op = "get" /\ last.path = PathOrShort /\ last.before = TreeUsers) =>
       last.outcome = Ok(DictGet(TreeUsers, <<"u", "s", "e", "r", "s">>)[1])

(* On {"xs":[1,2,3],"n":2} the two filters select 1, 2, 3 and 3. *)
C26_Witness ==
  /\ C26_Case /\ last.before = TreeNumbers /\ last.strict
  /\ last.path = PathNotAnd
  /\ last.outcome = Ok(ListV(<<IntV(3)>>))

----------------------------------------------------------------------------
(* C27: filters whose value side is a pipeline or a predicate expression *)

(* The matcher of the only token of the path, a filter. *)
C27_Matcher == compile_filter_matcher(LastTokens[1].kind.field, LastTokens[1].kind.value)

(* The elements of the list under the key of the token. *)
C27_Items ==
  IF /\ IsDict(last.before) /\ DictHas(last.before, OnlyToken.list_key)
     /\ IsList(DictGet(last.before, OnlyToken.list_key)[1])
  THEN DictGet(last.before, OnlyToken.list_key)[1].l
  ELSE <<>>

(* A get through one filter token whose value side is a pipeline or a
   predicate expression and whose field is the element or a key, on a
   mapping that holds a list with elements under the key of the token. *)
C27_Case ==
  /\ last.op = "get"
  /\ parse_path(last.path).ok /\ Len(LastTokens) = 1 /\ OnlyToken.kind = "Filter"
  /\ split_path_and_transform(last.path).transform = <<>>
  /\ C27_Matcher.ok
  /\ C27_Matcher.val.value_matcher.t \in {"BuiltinPipeline", "PredicateExpr"}
  /\ C27_Matcher.val.field_resolver.t \in {"CurrentItem", "Key"}
  /\ C27_Items # <<>>

(* The value of the field of an element, when the element has it. *)
C27_Field(item) ==
  IF C27_Matcher.val.field_resolver.t = "CurrentItem" THEN <<item>>
  ELSE IF IsDict(item) THEN DictGet(item, OnlyToken.field)
  ELSE <<>>

(* What the pipeline or the predicate expression makes of the field. *)
C27_Applied(item) ==
  IF C27_Matcher.val.value_matcher.t = "BuiltinPipeline"
  THEN LET r == apply_builtin_pipeline(C27_Field(item)[1], C27_Matcher.val.value_matcher.p)
       IN IF r.ok THEN Ok(is_truthy(r.val)) ELSE r
  ELSE eval_predicate_expr(C27_Matcher.val.value_matcher.e, C27_Field(item)[1])

C27_Selects(item) == C27_Applied(item).val = (OnlyToken.operator = <<"=", "=">>)

(* C27: with "==" such a filter selects the elements whose field the
   pipeline or predicate makes truthy and with "!=" the others; with any
   other operator every element evaluated yields an operator error, which a
   lenient get turns into the default and a strict get into a
   ResolutionError. *)
C27_PipelineFilterOperators ==
  C27_Case =>
    IF OnlyToken.operator \in {<<"=", "=">>, <<"!", "=">>}
    THEN (\A j \in 1..Len(C27_Items) :
            /\ C27_Field(C27_Items[j]) # <<>>
            /\ C27_Applied(C27_Items[j]).ok)
         => last.outcome = Ok(ListV(SelectSeq(C27_Items, C27_Selects)))
    ELSE IF last.strict THEN last.outcome = Err("ResolutionError")
    ELSE last.outcome = Ok(IF last.default = <<>> THEN Null ELSE last.default[1])

(* A lenient get of "xs[?k>$even]" on {"xs":[{"k":1}]} returns the default. *)
C27_Witness ==
  /\ C27_Case /\ ~last.strict /\ last.default # <<>>
  /\ last.path = PathFilterBadOp /\ last.before = TreeFilter
  /\ last.outcome = Ok(Sentinel)

(* "xs[?.!=$even]" on {"xs":[1,2,3],"n":2} selects 1 and 3. *)
C27_WitnessSelects ==
  /\ C27_Case /\ last.path = PathFilterNotEven /\ last.before = TreeNumbers
  /\ last.outcome = Ok(ListV(<<IntV(1), IntV(3)>>))

----------------------------------------------------------------------------
(* C28: set with create_missing=false *)

(* The objects of the call: the containers of the tree and of the value as
   set found them, each under its own number, and the same objects as the
   walk of set left them. *)
C28_Root == Load(<<>>, last.before)
C28_Before == Load(C28_Root.h, last.value)
C28_After ==
  set_recurse(C28_Before.h, C28_Root.val, LastTokens, C28_Before.val, last.options,
              C28_Root.val).h

(* A set without create_missing that reaches its walk: the path parses, has
   no "$$root" token and, in strict mode, resolves up to its last token. *)
C28_Case ==
  /\ last.op = "set" /\ ~last.options.create_missing
  /\ parse_path(last.path).ok /\ ~path_uses_root_token(LastTokens)
  /\ (last.strict /\ LastTokens # <<>>) =>
       ensure_path_resolves(last.before, LastTokens, Len(LastTokens) - 1).ok

(* C28: with create_missing=false a set adds no key to a mapping that was
   there before the call and changes the length of no list that was there
   before, whatever the path, the value and the other options. *)
C28_NoCreateAddsNothing ==
  C28_Case =>
    \A id \in 1..Len(C28_Before.h) :
      IF C28_Before.h[id].k = "map"
      THEN \A j \in 1..Len(C28_After[id].m) :
             DictHas(C28_Before.h[id], C28_After[id].m[j][1])
      ELSE Len(C28_After[id].l) = Len(C28_Before.h[id].l)

(* A set without create_missing that wrote: it changed the tree, on a path
   whose list key the mapping holds. *)
C28_Witness ==
  /\ C28_Case /\ last.outcome.ok /\ data # last.before
  /\ last.path = PathLast /\ last.before = TreeNumbers

----------------------------------------------------------------------------
(* C29: an output transform that does not compile *)

C29_Transform == split_path_and_transform(last.path).transform

(* A get whose output transform is no pipeline: it names an unknown filter,
   has the wrong number of arguments or a malformed segment. *)
C29_GetCase ==
  /\ last.op = "get"
  /\ C29_Transform # <<>> /\ ~HasRootArgument(C29_Transform[1])
  /\ compile_builtin_pipeline(C29_Transform[1], <<last.before>>) = <<>>

C29_RunCase ==
  /\ last.op = "run_filter_function"
  /\ IsStr(last.filter) => compile_builtin_pipeline(last.filter.s, <<>>) = <<>>

(* C29: a get whose output transform does not compile does not raise for it
   and returns what the base path alone gives, strict or lenient, while
   run_filter_function raises a parse error for the same expression. *)
C29_BadTransformSkipped ==
  /\ C29_GetCase =>
       last.outcome = get(last.before, split_path_and_transform(last.path).base,
                          last.default, last.strict)
  /\ C29_RunCase => last.outcome = Err("ParseError")
  /\ (C29_GetCase /\ last.path = PathBadTransformArgs /\ last.before = TreeScalars) =>
       /\ last.outcome = Ok(IntV(1))
       /\ run_filter_function(StrV(C29_Transform[1]), IntV(1)) = Err("ParseError")

(* A strict get of "a|$gt" on {"a":1,"s":"x"} returns 1. *)
C29_Witness ==
  /\ C29_GetCase /\ last.strict
  /\ last.path = PathBadTransformArgs /\ last.before = TreeScalars
  /\ last.outcome = Ok(IntV(1))

(* run_filter_function raises a parse error for "$gt". *)
C29_WitnessRun ==
  /\ C29_RunCase /\ last.filter = StrV(<<"$", "g", "t">>)
  /\ last.outcome = Err("ParseError")

----------------------------------------------------------------------------
(* C30: a filter read where the list key is missing *)

(* A get or exists through one Filter token, without an output transform,
   on a mapping that has no entry for the list key of the token. *)
C30_Case ==
  /\ IsRead
  /\ parse_path(last.path).ok /\ Len(LastTokens) = 1 /\ OnlyToken.kind = "Filter"
  /\ split_path_and_transform(last.path).transform = <<>>
  /\ IsDict(last.before) /\ ~DictHas(last.before, OnlyToken.list_key)

(* C30: a Filter token read against a mapping with no entry for the list key
   resolves to an empty list and not to a soft KeyError: get returns [], not
   the default, and exists returns true, in strict mode and in lenient mode. *)
C30_MissingListKeyIsEmpty ==
  C30_Case =>
    IF last.op = "get" THEN last.outcome = Ok(ListV(<<>>))
    ELSE last.outcome = Ok(BoolV(TRUE))

(* A lenient get of "xs[?k==2]" with a default on {"a":{}} returns []. *)
C30_Witness ==
  /\ C30_Case /\ last.op = "get" /\ ~last.strict /\ last.default # <<>>
  /\ last.path = PathFilterK /\ last.before = TreeEmptyA
  /\ last.outcome = Ok(ListV(<<>>))

====
